---------------------------- MODULE Spec2Model ----------------------------
(***************************************************************************)
(* Crash-log analysis engine of CLASSIC (CLASSIC_ScanLogs.py).             *)
(*                                                                         *)
(* A Python str is modelled as a finite sequence of symbols (each symbol a *)
(* TLA+ string standing for a run of characters that the program never     *)
(* splits).  startswith, `in`, count, strip, replace, split and join are   *)
(* computed on these sequences as Python computes them on characters.      *)
(***************************************************************************)
EXTENDS Integers, Sequences, FiniteSets, TLC

(***************************************************************************)
(* Bounds of the model.                                                    *)
(***************************************************************************)
\* lines of content generated inside each region of a structured log
MaxContent == 1
\* length of the unstructured (arbitrary order) logs
MaxLines == 3
\* signals in the list of a stack rule
MaxSignals == 2
\* symbols in the joined call stack
MaxStack == 3
\* lines in the Plugins segment
MaxPlugins == 3

\* files of a batch
MaxFiles == 2
\* rules in a mod rule table
MaxRules == 2

(***************************************************************************)
(* Python str / list primitives.                                           *)
(***************************************************************************)
Min(a, b) == IF a < b THEN a ELSE b

Max(a, b) == IF a > b THEN a ELSE b

\* s[a:b] for 0 <= a, 0 <= b (0-based, end exclusive, clamped)
PySlice(s, a, b) ==
    LET hi == Min(b, Len(s))
    IN  IF a >= hi THEN << >> ELSE SubSeq(s, a + 1, hi)

\* s[a:]
PySliceFrom(s, a) == PySlice(s, a, Len(s))

\* s.startswith(p)
StartsWith(s, p) == Len(p) <= Len(s) /\ SubSeq(s, 1, Len(p)) = p

\* t in s
Contains(s, t) ==
    \E i \in 0..(Len(s) - Len(t)) : PySlice(s, i, i + Len(t)) = t

\* s.count(t): occurrences of t in s that do not overlap, from position i
\* (0-based); the empty t is counted once between any two symbols
RECURSIVE CountFrom(_, _, _)
CountFrom(s, t, i) ==
    IF t = << >> THEN Len(s) + 1 - i
    ELSE IF i + Len(t) > Len(s) THEN 0
    ELSE IF PySlice(s, i, i + Len(t)) = t
         THEN 1 + CountFrom(s, t, i + Len(t))
    ELSE CountFrom(s, t, i + 1)

\* a variant of Count that counts overlapping occurrences too
CountOverlapping(s, t) ==
    Cardinality({ i \in 0..(Len(s) - Len(t)) : PySlice(s, i, i + Len(t)) = t })

Count(s, t) == CountFrom(s, t, 0)

\* s.ljust(w, c)
Ljust(s, w, c) ==
    IF Len(s) >= w THEN s ELSE s \o [i \in 1..(w - Len(s)) |-> c]

DigitValue(c) ==
    CASE c = "0" -> 0 [] c = "1" -> 1 [] c = "2" -> 2 [] c = "3" -> 3
      [] c = "4" -> 4 [] c = "5" -> 5 [] c = "6" -> 6 [] c = "7" -> 7
      [] c = "8" -> 8 [] c = "9" -> 9

DecimalDigits == {"0", "1", "2", "3", "4", "5", "6", "7", "8", "9"}

\* s.isdecimal()
IsDecimal(s) == s # << >> /\ \A i \in 1..Len(s) : s[i] \in DecimalDigits

\* int(s) for a decimal s
RECURSIVE ToInt(_)
ToInt(s) ==
    IF s = << >> THEN 0
    ELSE 10 * ToInt(SubSeq(s, 1, Len(s) - 1)) + DigitValue(s[Len(s)])

\* s.split(sep, 1) for a one-symbol separator that occurs in s
SplitOnce(s, sep) ==
    LET i == CHOOSE j \in 1..Len(s) :
                 s[j] = sep /\ \A k \in 1..(j - 1) : s[k] # sep
    IN  << SubSeq(s, 1, i - 1), SubSeq(s, i + 1, Len(s)) >>

\* sep in s, for a one-symbol separator
HasSym(s, sep) == \E j \in 1..Len(s) : s[j] = sep

Whitespace == {" ", "\t", "\n"}

RECURSIVE LStrip(_)
LStrip(s) ==
    IF s # << >> /\ Head(s) \in Whitespace THEN LStrip(Tail(s)) ELSE s

RECURSIVE RStrip(_)
RStrip(s) ==
    IF s # << >> /\ s[Len(s)] \in Whitespace
    THEN RStrip(SubSeq(s, 1, Len(s) - 1))
    ELSE s

\* s.strip()
Strip(s) == RStrip(LStrip(s))

\* index (1-based) of the first occurrence of symbol c in s, 0 if none
RECURSIVE FindSym(_, _, _)
FindSym(s, c, i) ==
    IF i > Len(s) THEN 0
    ELSE IF s[i] = c THEN i
    ELSE FindSym(s, c, i + 1)

\* s.replace("|", "\n", 1)
ReplaceFirstBar(s) ==
    LET i == FindSym(s, "|", 1)
    IN  IF i = 0 THEN s ELSE [s EXCEPT ![i] = "\n"]

\* Optional values: None is the empty sequence, a value v is <<v>>.
None == << >>

Some(v) == << v >>

UNKNOWN == << "UNKNOWN" >>

\* x or "UNKNOWN"   (None and the empty str are both falsy)
OrUnknown(x) == IF x = None \/ x[1] = << >> THEN UNKNOWN ELSE x[1]

(***************************************************************************)
(* find_segments: constants of the call.                                   *)
(***************************************************************************)
\* xse_acronym.upper() for the game's acronym "f4se"
xse == "F4SE"

crashgen_name == << "Buffout 4" >>

game_root_name == << "Fallout 4" >>

UnhandledException == << "Unhandled exception" >>

EOF == << "EOF" >>

\* segment_boundaries[k][0] and [k][1], k = 1..6 (Python index k-1)
segment_boundaries ==
    << << << "\t", "[Compatibility]" >>, << "SYSTEM SPECS:" >> >>,
       << << "SYSTEM SPECS:" >>, << "PROBABLE CALL STACK:" >> >>,
       << << "PROBABLE CALL STACK:" >>, << "MODULES:" >> >>,
       << << "MODULES:" >>, << xse, " PLUGINS:" >> >>,
       << << xse, " PLUGINS:" >>, << "PLUGINS:" >> >>,
       << << "PLUGINS:" >>, EOF >> >>

NSegments == Len(segment_boundaries)

\* segment_boundaries[i][collect], i a Python index
Boundary(i, c) == segment_boundaries[i + 1][IF c THEN 2 ELSE 1]

StartMarker(k) == segment_boundaries[k][1]

(***************************************************************************)
(* Input logs.                                                             *)
(***************************************************************************)
GameLine == << "Fallout 4", " ", "v1.10.163" >>

CrashgenLine == << "Buffout 4", " ", "v1.28.6" >>

ErrorLine1 == << "Unhandled exception", " ", "\"EXCEPTION_ACCESS_VIOLATION\"",
                 " ", "|", " ", "Fallout4.exe+2479DFA", "|", "mov" >>

ErrorLine2 == << "Unhandled exception", " ", "\"EXCEPTION_STACK_OVERFLOW\"" >>

Digit == << "0", "1", "2", "3", "4" >>

RegionSym == << "set", "os", "frame", "module", "xse", "plugin" >>

\* the j-th content line of region k, indented and with trailing blanks
ContentLine(k, j) == << "\t", RegionSym[k], Digit[j + 1], " " >>

RECURSIVE ContentLines(_, _)
ContentLines(k, n) ==
    IF n = 0 THEN << >> ELSE Append(ContentLines(k, n - 1), ContentLine(k, n))

\* the subsequences of s, order kept
RECURSIVE SubSeqs(_)
SubSeqs(s) ==
    IF s = << >> THEN { << >> }
    ELSE LET rest == SubSeqs(Tail(s))
         IN  rest \cup { << Head(s) >> \o r : r \in rest }

HeaderChoices == SubSeqs(<< GameLine, CrashgenLine, ErrorLine1 >>)

\* a log in the crash logger's layout: for each region its marker line
\* (absent when k = missing) and n[k] content lines; the header lines h
\* stand before the marker of region hk
RECURSIVE Regions(_, _, _, _, _)
Regions(k, n, missing, h, hk) ==
    IF k > NSegments THEN << >>
    ELSE (IF k = hk THEN h ELSE << >>)
         \o (IF k = missing THEN << >> ELSE << StartMarker(k) >>)
         \o ContentLines(k, n[k]) \o Regions(k + 1, n, missing, h, hk)

StructuredLogs ==
    { Regions(1, n, m, h, hk) :
        h \in HeaderChoices,
        hk \in 1..2,
        n \in [1..NSegments -> 0..MaxContent],
        m \in 0..NSegments }

LineSet ==
    { GameLine, CrashgenLine, ErrorLine1, ErrorLine2, ContentLine(1, 1) }
    \cup { StartMarker(k) : k \in 1..NSegments }

\* every sequence of at most n lines of LineSet
RECURSIVE SeqsUpTo(_, _)
SeqsUpTo(S, n) ==
    IF n = 0 THEN { << >> }
    ELSE LET shorter == SeqsUpTo(S, n - 1)
         IN  shorter \cup { Append(s, x) : s \in shorter, x \in S }

ShortLogs == SeqsUpTo(LineSet, MaxLines)

Logs == StructuredLogs \cup ShortLogs

(***************************************************************************)
(* State.                                                                  *)
(***************************************************************************)
VARIABLES
    pc,                    \* position in find_segments: "loop", "after", "done"
    crash_data,            \* the lines of the log
    current_index,
    index_start,
    segment_index,
    collect,
    next_boundary,
    segments,
    crashlog_gameversion,
    crashlog_crashgen,
    crashlog_mainerror,
    iterations,            \* iterations of the while loop so far
    result,                \* the returned tuple, once pc = "done"
    \* process_crash_suspects
    spc,                   \* position: "start", "errors", "stack", "footer", "done"
    mainerror,             \* segments.mainerror
    callstack_intact,      \* segments.callstack_intact
    suspects_error_list,   \* yamldata.suspects_error_list, in insertion order
    suspects_stack_list,   \* yamldata.suspects_stack_list, in insertion order
    rule_index,            \* stack rules already evaluated
    trigger_suspect_found,
    autoscan_report,
    \* get_crash_log_plugins
    ppc,                   \* position: "start", "plugins", "xse", "vulkan",
                           \* "ignore", "done", "raised"
    plugins,               \* segments.plugins
    xsemodules,            \* segments.xsemodules
    allmodules,            \* segments.allmodules
    ignore_plugins_list,   \* the caller's ignore set
    loadorder_exists,      \* Path("loadorder.txt").exists()
    crashlog_plugins,      \* the table, <<name, tag>> in insertion order
    plugin_index,          \* lines of segments.plugins already handled
    xse_left,              \* XSE module names not yet iterated over
    \* crashlogs_reformat
    rpc,                   \* position: "next", "loop", "done", "raised"
    files_left,            \* files of crashlog_list not yet opened
    log_file,              \* the lines of the file on disk
    last_index,
    index,                 \* lines handled by the loop over reversed(crash_data)
    in_plugins,
    simplify_logs,         \* the "Simplify Logs" setting
    \* process_crash_log, process_mod_compatibility
    mpc,                   \* position: "plugins", "frequent", "conflicts",
                           \* "solutions", "patches", "important", "stats",
                           \* "done", "raised"
    system,                \* segments.system
    gpu_info,              \* <<gpu_amd, gpu_nvidia, gpu_integrated>>
    trigger_plugins_loaded,
    incomplete,            \* stats["incomplete"]
    game_mods_freq,        \* the rule tables of yamldata, in insertion order
    game_mods_conf,
    game_mods_core,
    \* crashlogs_scan
    bpc,                   \* position: "loop", "stats", "write", "done", "raised"
    crashlog_list,         \* the lines of each log of the batch
    log_no,                \* logs the loop is through with
    scanned,               \* stats["scanned"]
    failed,                \* stats["failed"]
    scan_failed_list,      \* the numbers of the failed logs
    trigger_scan_failed,
    written,               \* the numbers of the logs whose report is written
    crashgen_ignore,       \* yamldata.crashgen_ignore
    fcx_mode,              \* the "FCX Mode" setting
    summary,               \* what print_final_stats lists as failed, once printed
    \* write_autoscan_report
    wpc,                   \* position: "write", "done"
    user_folder,           \* Path.home(): [parent, sep, name]
    sanitized_report,
    autoscan_file,         \* the text written to the report file
    \* get_entry
    query_cache,           \* dict: (formid, plugin) -> entry
    db_main,               \* the Main database: [is_file, rows]
    db_local,              \* the Local database: [is_file, rows]
    calls,                 \* calls of get_entry so far
    entry_key,             \* the arguments of the last call
    entry_result,          \* what the last call returned
    entry_hit,             \* the last call was answered from query_cache
    cache_writes,          \* the keys query_cache was assigned, in order
    \* YamlSettingsCache, for one YAML store
    cache,                 \* self.cache[yaml_path]: [cached, data]
    file_mod_times,        \* self.file_mod_times[yaml_path]: None or << time >>
    yaml_file,             \* the file at yaml_path: [exists, st_mtime, lines]
    ops,                   \* calls of get_setting so far
    setting,               \* the last call: [key_path, new_value]
    returned,              \* its outcome: [raised, value]
    standing               \* dict: key path -> the value written to it that
                           \* no later write to it or around it replaced

segVars == << pc, crash_data, current_index, index_start, segment_index,
              collect, next_boundary, segments, crashlog_gameversion,
              crashlog_crashgen, crashlog_mainerror, iterations, result >>

susVars == << spc, mainerror, callstack_intact, suspects_error_list,
              suspects_stack_list, rule_index, trigger_suspect_found,
              autoscan_report >>

plgVars == << ppc, plugins, xsemodules, allmodules, ignore_plugins_list,
              loadorder_exists, crashlog_plugins, plugin_index, xse_left >>

rfmVars == << rpc, files_left, log_file, last_index, index, in_plugins,
              simplify_logs >>

modVars == << mpc, system, gpu_info, trigger_plugins_loaded, incomplete,
              game_mods_freq, game_mods_conf, game_mods_core >>

scanVars == << bpc, crashlog_list, log_no, scanned, failed, scan_failed_list,
               trigger_scan_failed, written, crashgen_ignore, fcx_mode,
               summary >>

\* the variables of the batch run and of the services it uses
wrtVars == << wpc, user_folder, sanitized_report, autoscan_file >>

dbVars == << query_cache, db_main, db_local, calls, entry_key, entry_result,
             entry_hit, cache_writes >>

ymlVars == << cache, file_mod_times, yaml_file, ops, setting, returned,
              standing >>

runVars == << scanVars, wrtVars, dbVars, ymlVars >>

vars == << segVars, susVars, plgVars, rfmVars, modVars, runVars >>

NoResult == [gameversion |-> << >>, crashgen |-> << >>, mainerror |-> << >>,
             segments |-> << >>]

(***************************************************************************)
(* find_segments.  The locals of a call are a record (a frame); Iterate is *)
(* one pass through the body of the while loop.                            *)
(***************************************************************************)
\* the locals as set before the loop
StartFrame(data) ==
    [pc |-> "loop",
     crash_data |-> data,
     segment_index |-> 0,
     collect |-> FALSE,
     segments |-> << >>,
     next_boundary |-> Boundary(0, FALSE),
     index_start |-> 0,
     current_index |-> 0,
     crashlog_gameversion |-> None,
     crashlog_crashgen |-> None,
     crashlog_mainerror |-> None,
     iterations |-> 0]

\* the line under the cursor
CurLine(f) == f.crash_data[f.current_index + 1]

\* the first `if` of the loop body
CaptureGameVersion(f) ==
    IF f.crashlog_gameversion = None /\ game_root_name # << >>
       /\ StartsWith(CurLine(f), game_root_name)
    THEN [f EXCEPT !.crashlog_gameversion = Some(Strip(CurLine(f)))]
    ELSE f

\* which arm of the if / elif / elif chain the line takes
Arm(f) ==
    IF f.crashlog_crashgen = None THEN "crashgen"
    ELSE IF f.crashlog_mainerror = None
            /\ StartsWith(CurLine(f), UnhandledException)
         THEN "mainerror"
    ELSE IF StartsWith(CurLine(f), f.next_boundary) THEN "boundary"
    ELSE "none"

\* the tail of the loop body: current_index += 1, and the flush at the end
Advance(f) ==
    LET n == f.current_index + 1
    IN  [f EXCEPT !.current_index = n,
                  !.segments =
                      IF f.collect /\ n = Len(f.crash_data)
                      THEN Append(@, PySliceFrom(f.crash_data, f.index_start))
                      ELSE @]

\* a variant of ClosedSegment that runs through the end-marker line
ClosedSegmentThroughMarker(f) ==
    PySlice(f.crash_data, f.index_start, f.current_index + 1)

\* crash_data[index_start:index_end] appended when an end marker is met
ClosedSegment(f) ==
    LET index_end == IF f.current_index > 0 THEN f.current_index - 1
                     ELSE f.current_index
    IN  PySlice(f.crash_data, f.index_start, index_end)

\* the boundary arm with collect True: close the segment; break after the
\* last one, else `continue` on the same line
EndBoundary(f) ==
    LET g == [f EXCEPT !.segments = Append(@, ClosedSegment(f)),
                       !.segment_index = @ + 1]
    IN  IF g.segment_index = NSegments
        THEN [g EXCEPT !.pc = "after"]
        ELSE IF g.segment_index > NSegments
        THEN [g EXCEPT !.pc = "raised"]
        ELSE [g EXCEPT !.collect = FALSE,
                       !.next_boundary = Boundary(g.segment_index, FALSE)]

\* a variant of StartBoundary that stays on the line of the start marker
StartBoundaryStays(f) ==
    [f EXCEPT !.index_start = IF Len(f.crash_data) > f.current_index
                              THEN f.current_index + 1
                              ELSE f.current_index,
              !.collect = TRUE,
              !.next_boundary = Boundary(f.segment_index, TRUE)]

\* the boundary arm with collect False: start collecting after this line
StartBoundary(f) ==
    LET g == [f EXCEPT !.index_start =
                           IF Len(f.crash_data) > f.current_index
                           THEN f.current_index + 1
                           ELSE f.current_index,
                       !.collect = TRUE,
                       !.next_boundary = Boundary(f.segment_index, TRUE)]
    IN  IF g.next_boundary = EOF
        THEN [g EXCEPT !.segments =
                           Append(@, PySliceFrom(g.crash_data, g.index_start)),
                       !.pc = "after"]
        ELSE Advance(g)

\* the if / elif / elif chain and what follows it
Chain(f) ==
    CASE Arm(f) = "crashgen" ->
            Advance(IF StartsWith(CurLine(f), crashgen_name)
                    THEN [f EXCEPT !.crashlog_crashgen = Some(Strip(CurLine(f)))]
                    ELSE f)
      [] Arm(f) = "mainerror" ->
            Advance([f EXCEPT !.crashlog_mainerror =
                                  Some(ReplaceFirstBar(CurLine(f)))])
      [] Arm(f) = "boundary" ->
            IF f.collect THEN EndBoundary(f) ELSE StartBoundary(f)
      [] OTHER -> Advance(f)

\* one iteration of the while loop
Iterate(f) ==
    [Chain(CaptureGameVersion(f)) EXCEPT !.iterations = @ + 1]

\* the while condition
Looping(f) == f.pc = "loop" /\ f.current_index < Len(f.crash_data)

\* [[line.strip() for line in segment] for segment in segments]
StripAll(segs) ==
    [i \in 1..Len(segs) |-> [j \in 1..Len(segs[i]) |-> Strip(segs[i][j])]]

\* a variant of Padded that leaves the list as it is
PaddedNot(segs) == segs

\* segment_results.extend([[]] * missing_segments)
Padded(segs) ==
    LET missing_segments == NSegments - Len(segs)
    IN  IF missing_segments > 0
        THEN segs \o [i \in 1..missing_segments |-> << >>]
        ELSE segs

\* the code after the loop: the returned tuple
Returned(f) ==
    [gameversion |-> OrUnknown(f.crashlog_gameversion),
     crashgen |-> OrUnknown(f.crashlog_crashgen),
     mainerror |-> OrUnknown(f.crashlog_mainerror),
     segments |-> Padded(StripAll(f.segments))]

\* the whole loop, run to its end
RECURSIVE RunLoop(_)
RunLoop(f) == IF Looping(f) THEN RunLoop(Iterate(f)) ELSE f

\* find_segments(crash_data, xse_acronym, crashgen_name)
find_segments(data) == Returned(RunLoop(StartFrame(data)))

(***************************************************************************)
(* find_segments as a process: one step per loop iteration.                *)
(***************************************************************************)
\* the locals of the running call
Frame ==
    [pc |-> pc,
     crash_data |-> crash_data,
     segment_index |-> segment_index,
     collect |-> collect,
     segments |-> segments,
     next_boundary |-> next_boundary,
     index_start |-> index_start,
     current_index |-> current_index,
     crashlog_gameversion |-> crashlog_gameversion,
     crashlog_crashgen |-> crashlog_crashgen,
     crashlog_mainerror |-> crashlog_mainerror,
     iterations |-> iterations]

SetFrame(f) ==
    /\ pc' = f.pc
    /\ crash_data' = f.crash_data
    /\ segment_index' = f.segment_index
    /\ collect' = f.collect
    /\ segments' = f.segments
    /\ next_boundary' = f.next_boundary
    /\ index_start' = f.index_start
    /\ current_index' = f.current_index
    /\ crashlog_gameversion' = f.crashlog_gameversion
    /\ crashlog_crashgen' = f.crashlog_crashgen
    /\ crashlog_mainerror' = f.crashlog_mainerror
    /\ iterations' = f.iterations

\* no call of process_crash_suspects is under way
SusIdle ==
    /\ spc = "idle"
    /\ mainerror = << >>
    /\ callstack_intact = << >>
    /\ suspects_error_list = << >>
    /\ suspects_stack_list = << >>
    /\ rule_index = 0
    /\ trigger_suspect_found = FALSE
    /\ autoscan_report = << >>

\* no call of get_crash_log_plugins is under way
PlgIdle ==
    /\ ppc = "idle"
    /\ plugins = << >>
    /\ xsemodules = << >>
    /\ allmodules = << >>
    /\ ignore_plugins_list = {}
    /\ loadorder_exists = FALSE
    /\ crashlog_plugins = << >>
    /\ plugin_index = 0
    /\ xse_left = {}

\* no call of crashlogs_reformat is under way
RfmIdle ==
    /\ rpc = "idle"
    /\ files_left = 0
    /\ log_file = << >>
    /\ last_index = 0
    /\ index = 0
    /\ in_plugins = FALSE
    /\ simplify_logs = FALSE

\* no batch is being scanned
ScanIdle ==
    /\ bpc = "idle"
    /\ crashlog_list = << >>
    /\ log_no = 0
    /\ scanned = 0
    /\ failed = 0
    /\ scan_failed_list = << >>
    /\ trigger_scan_failed = FALSE
    /\ written = << >>
    /\ crashgen_ignore = {}
    /\ fcx_mode = FALSE
    /\ summary = << >>

\* no report is being written
WrtIdle ==
    /\ wpc = "idle"
    /\ user_folder = << >>
    /\ sanitized_report = << >>
    /\ autoscan_file = << >>

\* no FormID is being looked up
DbIdle ==
    /\ query_cache = << >>
    /\ db_main = [is_file |-> FALSE, rows |-> << >>]
    /\ db_local = [is_file |-> FALSE, rows |-> << >>]
    /\ calls = 0
    /\ entry_key = << >>
    /\ entry_result = << >>
    /\ entry_hit = FALSE
    /\ cache_writes = << >>

\* the values of a YAML document: a scalar has a text, a mapping has items
\* << key, value >>, a list has items << "-", value >>
NoneVal == [kind |-> "none", text |-> << >>, items |-> << >>]

StrVal(t) == [kind |-> "str", text |-> t, items |-> << >>]

IntVal(t) == [kind |-> "int", text |-> t, items |-> << >>]

BoolVal(t) == [kind |-> "bool", text |-> t, items |-> << >>]

DictVal(items) == [kind |-> "dict", text |-> << >>, items |-> items]

ListVal(items) == [kind |-> "list", text |-> << >>, items |-> items]

\* no setting is being read or written
YmlIdle ==
    /\ cache = [cached |-> FALSE, data |-> << >>]
    /\ file_mod_times = << >>
    /\ yaml_file = [exists |-> FALSE, st_mtime |-> 0, lines |-> << >>]
    /\ ops = 0
    /\ setting = [key_path |-> << >>, new_value |-> NoneVal]
    /\ returned = [raised |-> FALSE, value |-> NoneVal]
    /\ standing = << >>

RunIdle == ScanIdle /\ WrtIdle /\ DbIdle /\ YmlIdle

\* no log is being processed
ModIdle ==
    /\ mpc = "idle"
    /\ system = << >>
    /\ gpu_info = << FALSE, FALSE, FALSE >>
    /\ trigger_plugins_loaded = FALSE
    /\ incomplete = 0
    /\ game_mods_freq = << >>
    /\ game_mods_conf = << >>
    /\ game_mods_core = << >>

SegInit ==
    /\ RunIdle
    /\ SusIdle
    /\ PlgIdle
    /\ RfmIdle
    /\ ModIdle
    /\ \E data \in Logs :
          /\ crash_data = data
          /\ pc = StartFrame(data).pc
          /\ segment_index = StartFrame(data).segment_index
          /\ collect = StartFrame(data).collect
          /\ segments = StartFrame(data).segments
          /\ next_boundary = StartFrame(data).next_boundary
          /\ index_start = StartFrame(data).index_start
          /\ current_index = StartFrame(data).current_index
          /\ crashlog_gameversion = StartFrame(data).crashlog_gameversion
          /\ crashlog_crashgen = StartFrame(data).crashlog_crashgen
          /\ crashlog_mainerror = StartFrame(data).crashlog_mainerror
          /\ iterations = StartFrame(data).iterations
    /\ result = NoResult

\* an iteration on a line that is no pending boundary: header capture only
ScanLine ==
    /\ Looping(Frame)
    /\ Arm(CaptureGameVersion(Frame)) # "boundary"
    /\ SetFrame(Iterate(Frame))
    /\ UNCHANGED << result, susVars, plgVars, rfmVars, modVars, runVars >>

\* an iteration on the pending start marker
ScanStartMarker ==
    /\ Looping(Frame)
    /\ Arm(CaptureGameVersion(Frame)) = "boundary"
    /\ ~collect
    /\ SetFrame(Iterate(Frame))
    /\ UNCHANGED << result, susVars, plgVars, rfmVars, modVars, runVars >>

\* an iteration on the pending end marker
ScanEndMarker ==
    /\ Looping(Frame)
    /\ Arm(CaptureGameVersion(Frame)) = "boundary"
    /\ collect
    /\ SetFrame(Iterate(Frame))
    /\ UNCHANGED << result, susVars, plgVars, rfmVars, modVars, runVars >>

\* the loop is left (condition false, or break) and the function returns
SegReturn ==
    /\ pc \in {"loop", "after"}
    /\ ~Looping(Frame)
    /\ result' = Returned(Frame)
    /\ pc' = "done"
    /\ UNCHANGED << crash_data, current_index, index_start, segment_index,
                    collect, next_boundary, segments, crashlog_gameversion,
                    crashlog_crashgen, crashlog_mainerror, iterations,
                    susVars, plgVars, rfmVars, modVars, runVars >>

SegNext == ScanLine \/ ScanStartMarker \/ ScanEndMarker \/ SegReturn

SpecSegments == SegInit /\ [][SegNext]_vars

(***************************************************************************)
(* process_crash_suspects.                                                 *)
(***************************************************************************)
max_warn_length == 30

\* texts of the main error and of the call stack
ErrAt == "Unhandled exception at 0x7FF6"

ErrCritical == "CRITICAL_SECTION"

ErrModule == << "nvwgf2umx", ".dll" >>

SafeModule == "SafeModule.dll"

RaiseException == "RaiseException"

MainErrors ==
    { << ErrAt >>, << ErrAt, ErrCritical >>,
      << ErrAt, ErrCritical >> \o ErrModule }

CallStacks == SeqsUpTo({SafeModule, RaiseException}, MaxStack)

\* the signals a stack rule is written with
SignalPool ==
    { << RaiseException >>,
      << "NOT", "|", SafeModule >>,
      << "2", "|", RaiseException >>,
      << "2", "|", RaiseException, RaiseException >>,
      << "ME-REQ", "|", ErrCritical >>,
      << "ME-REQ", "|" >> \o ErrModule,
      << "ME-OPT", "|", ErrCritical >> }

\* a rule names each of its signals once
SignalLists ==
    { sl \in SeqsUpTo(SignalPool, MaxSignals) :
        \A a \in 1..Len(sl) : \A b \in 1..Len(sl) : a # b => sl[a] # sl[b] }

\* the rule tables: dicts as sequences of <<key, value>> in insertion order
ErrorRules ==
    << << << "5", " | ", "Critical Section Crash" >>, << ErrCritical >> >>,
       << << "4", " | ", "Driver Crash" >>, ErrModule >> >>

SecondStackRule ==
    << << "3", " | ", "Exception Crash" >>,
       << << RaiseException >>, << "ME-OPT", "|", ErrCritical >> >> >>

StackRules ==
    { << << << "6", " | ", "Stack Crash" >>, sl >>, SecondStackRule >> :
        sl \in SignalLists }

\* the working flags of one stack rule before its signals are looked at
NoFlags ==
    [error_req_found |-> FALSE, error_opt_found |-> FALSE,
     stack_found |-> FALSE, has_required_item |-> FALSE, broke |-> FALSE]

\* the body of `for signal in signal_list`, for one signal
SignalStep(fl, signal, me, cs) ==
    IF ~HasSym(signal, "|")
    THEN IF Contains(cs, signal) THEN [fl EXCEPT !.stack_found = TRUE] ELSE fl
    ELSE LET signal_modifier == SplitOnce(signal, "|")[1]
             signal_string == SplitOnce(signal, "|")[2]
         IN  CASE signal_modifier = << "ME-REQ" >> ->
                    [fl EXCEPT !.has_required_item = TRUE,
                               !.error_req_found =
                                   @ \/ Contains(me, signal_string)]
               [] signal_modifier = << "ME-OPT" >> ->
                    [fl EXCEPT !.error_opt_found =
                                   @ \/ Contains(me, signal_string)]
               [] signal_modifier = << "NOT" >>
                  /\ Contains(cs, signal_string) ->
                    [fl EXCEPT !.broke = TRUE]
               [] signal_modifier # << "ME-REQ" >>
                  /\ signal_modifier # << "ME-OPT" >>
                  /\ ~(signal_modifier = << "NOT" >>
                       /\ Contains(cs, signal_string))
                  /\ IsDecimal(signal_modifier) ->
                    IF Count(cs, signal_string) >= ToInt(signal_modifier)
                    THEN [fl EXCEPT !.stack_found = TRUE]
                    ELSE fl
               [] OTHER -> fl

\* the loop over the signals of a rule, left at the first `break`
RECURSIVE SignalLoop(_, _, _, _, _)
SignalLoop(fl, signal_list, i, me, cs) ==
    IF i > Len(signal_list) \/ fl.broke THEN fl
    ELSE SignalLoop(SignalStep(fl, signal_list[i], me, cs),
                    signal_list, i + 1, me, cs)

\* the condition under which the rule is reported
RuleMatches(signal_list, me, cs) ==
    LET fl == SignalLoop(NoFlags, signal_list, 1, me, cs)
    IN  \/ fl.has_required_item /\ fl.error_req_found
        \/ ~fl.has_required_item /\ (fl.error_opt_found \/ fl.stack_found)

\* error_severity, error_name = error.split(" | ", 1)
Severity(key) == SplitOnce(key, " | ")[1]

ErrorName(key) == SplitOnce(key, " | ")[2]

\* the report line of a matching rule
SuspectLine(key) ==
    << "# Checking for " >> \o Ljust(ErrorName(key), max_warn_length, ".")
       \o << " SUSPECT FOUND! > Severity : " >> \o Severity(key)
       \o << " # \n-----\n" >>

\* a variant of ErrorMatches that lists the matching rules last to first
RECURSIVE ErrorMatchesBackwards(_, _, _)
ErrorMatchesBackwards(rules, i, me) ==
    IF i > Len(rules) THEN << >>
    ELSE ErrorMatchesBackwards(rules, i + 1, me)
         \o (IF Contains(me, rules[i][2]) THEN << SuspectLine(rules[i][1]) >>
             ELSE << >>)

\* the lines of the matching error rules, in the order of the table
RECURSIVE ErrorMatches(_, _, _)
ErrorMatches(rules, i, me) ==
    IF i > Len(rules) THEN << >>
    ELSE (IF Contains(me, rules[i][2]) THEN << SuspectLine(rules[i][1]) >>
          ELSE << >>)
         \o ErrorMatches(rules, i + 1, me)

\* str.lower() on the symbols of a main error (none has an upper-case
\* spelling of ".dll" or "tbbmalloc")
MainErrorLower(me) == me

\* no call of find_segments is under way
SegIdle ==
    /\ pc = "idle"
    /\ crash_data = << >>
    /\ current_index = 0
    /\ index_start = 0
    /\ segment_index = 0
    /\ collect = FALSE
    /\ next_boundary = << >>
    /\ segments = << >>
    /\ crashlog_gameversion = None
    /\ crashlog_crashgen = None
    /\ crashlog_mainerror = None
    /\ iterations = 0
    /\ result = NoResult

SusInit ==
    /\ RunIdle
    /\ SegIdle
    /\ PlgIdle
    /\ RfmIdle
    /\ ModIdle
    /\ spc = "start"
    /\ mainerror \in MainErrors
    /\ callstack_intact \in CallStacks
    /\ suspects_error_list = ErrorRules
    /\ suspects_stack_list \in StackRules
    /\ rule_index = 0
    /\ trigger_suspect_found = FALSE
    /\ autoscan_report = << >>

\* the heading and the notice about a DLL in the main error
SuspectsStart ==
    /\ spc = "start"
    /\ autoscan_report' =
         autoscan_report
         \o << << "====================================================\n" >>,
               << "CHECKING IF LOG MATCHES ANY KNOWN CRASH SUSPECTS...\n" >>,
               << "====================================================\n" >> >>
         \o (IF Contains(MainErrorLower(mainerror), << ".dll" >>)
                /\ ~Contains(MainErrorLower(mainerror), << "tbbmalloc" >>)
             THEN << << "* NOTICE : MAIN ERROR REPORTS THAT A DLL FILE WAS INVOLVED IN THIS CRASH! * \n" >>,
                     << "If that dll file belongs to a mod, that mod is a prime suspect for the crash. \n-----\n" >> >>
             ELSE << >>)
    /\ spc' = "errors"
    /\ UNCHANGED << mainerror, callstack_intact, suspects_error_list,
                    suspects_stack_list, rule_index, trigger_suspect_found,
                    segVars, plgVars, rfmVars,
                    modVars, runVars >>

\* the loop over suspects_error_list
CheckErrorList ==
    /\ spc = "errors"
    /\ LET found == ErrorMatches(suspects_error_list, 1, mainerror)
       IN  /\ autoscan_report' = autoscan_report \o found
           /\ trigger_suspect_found' = (trigger_suspect_found \/ found # << >>)
    /\ spc' = "stack"
    /\ UNCHANGED << mainerror, callstack_intact, suspects_error_list,
                    suspects_stack_list, rule_index, segVars, plgVars, rfmVars,
                    modVars, runVars >>

\* one pass of the loop over suspects_stack_list
CheckStackRule ==
    /\ spc = "stack"
    /\ rule_index < Len(suspects_stack_list)
    /\ LET rule == suspects_stack_list[rule_index + 1]
           hit == RuleMatches(rule[2], mainerror, callstack_intact)
       IN  /\ autoscan_report' =
                IF hit THEN Append(autoscan_report, SuspectLine(rule[1]))
                ELSE autoscan_report
           /\ trigger_suspect_found' = (trigger_suspect_found \/ hit)
    /\ rule_index' = rule_index + 1
    /\ UNCHANGED << spc, mainerror, callstack_intact, suspects_error_list,
                    suspects_stack_list, segVars, plgVars, rfmVars,
                    modVars, runVars >>

\* the closing lines
SuspectsFooter ==
    /\ spc = "stack"
    /\ rule_index = Len(suspects_stack_list)
    /\ autoscan_report' =
         autoscan_report
         \o (IF trigger_suspect_found
             THEN << << "* FOR DETAILED DESCRIPTIONS AND POSSIBLE SOLUTIONS TO ANY ABOVE DETECTED CRASH SUSPECTS *\n" >>,
                     << "* SEE: https://docs.google.com/document/d/17FzeIMJ256xE85XdjoPvv_Zi3C5uHeSTQh6wOZugs4c *\n\n" >> >>
             ELSE << << "# FOUND NO CRASH ERRORS / SUSPECTS THAT MATCH THE CURRENT DATABASE #\n" >>,
                     << "Check below for mods that can cause frequent crashes and other problems.\n\n" >> >>)
    /\ spc' = "done"
    /\ UNCHANGED << mainerror, callstack_intact, suspects_error_list,
                    suspects_stack_list, rule_index, trigger_suspect_found,
                    segVars, plgVars, rfmVars,
                    modVars, runVars >>

SusNext == SuspectsStart \/ CheckErrorList \/ CheckStackRule \/ SuspectsFooter

SpecSuspects == SusInit /\ [][SusNext]_vars

(***************************************************************************)
(* get_crash_log_plugins.                                                  *)
(***************************************************************************)
\* str.lower(), symbol by symbol
LowerSym(c) ==
    CASE c = "My" -> "my" [] c = "Mod" -> "mod"
      [] c = "Fallout4" -> "fallout4" [] c = "Buffout4" -> "buffout4"
      [] c = "DLCRobot" -> "dlcrobot"
      [] c = "A" -> "a" [] c = "B" -> "b" [] c = "C" -> "c"
      [] c = "D" -> "d" [] c = "E" -> "e" [] c = "F" -> "f"
      [] c = ".ESP" -> ".esp" [] c = ".ESM" -> ".esm" [] c = ".ESL" -> ".esl"
      [] c = "DLL" -> "dll" [] c = " V" -> " v"
      [] c = "Weapon" -> "weapon" [] c = "Other" -> "other"
      [] c = "London" -> "london" [] c = "WorldSpace" -> "worldspace"
      [] c = "NVIDIA" -> "nvidia" [] c = "Nvidia" -> "nvidia"
      [] c = "AMD" -> "amd"
      [] OTHER -> c

Lower(s) == [i \in 1..Len(s) |-> LowerSym(s[i])]

\* s.replace(c, "")
RemoveSym(s, c) == SelectSeq(s, LAMBDA x : x # c)

\* dict operations on a sequence of <<key, value>> in insertion order
Keys(d) == { d[i][1] : i \in 1..Len(d) }

DictGet(d, k) == d[CHOOSE i \in 1..Len(d) : d[i][1] = k][2]

\* d[k] = v: a present key keeps its place
DictSet(d, k, v) ==
    IF k \in Keys(d)
    THEN [i \in 1..Len(d) |-> IF d[i][1] = k THEN << k, v >> ELSE d[i]]
    ELSE Append(d, << k, v >>)

\* del d[k]
DictDel(d, k) == SelectSeq(d, LAMBDA e : e[1] # k)

\* all(name not in item for item in crashlog_plugins)
InNoKey(d, name) == \A item \in Keys(d) : ~Contains(item, name)

\* f"{CMain.gamevars['game']}.esm"
esm_name == << "Fallout4", ".esm" >>

TagDLL == << "DLL" >>

TagUnknown == << "???" >>

TagLO == << "LO" >>

HexDigits ==
    DecimalDigits \cup {"A", "B", "C", "D", "E", "F", "a", "b", "c", "d", "e", "f"}

\* \.es[pml], ignoring case
IsExt(c) == LowerSym(c) \in {".esp", ".esm", ".esl"}

\* \s*: the length of the run of blanks from place i on (1-based)
RECURSIVE SpaceRun(_, _)
SpaceRun(s, i) ==
    IF i <= Len(s) /\ s[i] \in Whitespace THEN 1 + SpaceRun(s, i + 1) ELSE 0

\* (?:\.es[pml])+: the length of the run of extensions from place i on
RECURSIVE ExtRun(_, _)
ExtRun(s, i) ==
    IF i <= Len(s) /\ IsExt(s[i]) THEN 1 + ExtRun(s, i + 1) ELSE 0

\* \[(FE:([0-9A-F]{3})|[0-9A-F]{2})\] with "[" at place b: the place of the
\* closing bracket, 0 if the index does not match
BracketEnd(s, b) ==
    IF /\ Len(s) >= b + 7
       /\ LowerSym(s[b + 1]) = "f" /\ LowerSym(s[b + 2]) = "e" /\ s[b + 3] = ":"
       /\ \A j \in (b + 4)..(b + 6) : s[j] \in HexDigits
       /\ s[b + 7] = "]"
    THEN b + 7
    ELSE IF /\ Len(s) >= b + 3
            /\ s[b + 1] \in HexDigits /\ s[b + 2] \in HexDigits
            /\ s[b + 3] = "]"
    THEN b + 3
    ELSE 0

\* pluginsearch.match(elem): None, or <<[fid |-> group(1), name |-> group(3)]>>
PluginMatch(elem) ==
    LET b == SpaceRun(elem, 1) + 1
        e == IF b <= Len(elem) /\ elem[b] = "[" THEN BracketEnd(elem, b) ELSE 0
        maxw == SpaceRun(elem, e + 1)
        \* <<w, n>>: w blanks skipped, then n symbols of name before an extension
        fits == { wn \in (0..maxw) \X (1..Len(elem)) :
                    /\ e + wn[1] + wn[2] + 1 <= Len(elem)
                    /\ IsExt(elem[e + wn[1] + wn[2] + 1])
                    /\ \A j \in (e + wn[1] + 1)..(e + wn[1] + wn[2]) :
                           elem[j] # "\n" }
    IN  IF e = 0 \/ fits = {} THEN None
        ELSE LET w == CHOOSE x \in { wn[1] : wn \in fits } :
                          \A y \in { wn[1] : wn \in fits } : y <= x
                 n == CHOOSE x \in { wn[2] : wn \in { f \in fits : f[1] = w } } :
                          \A y \in { wn[2] : wn \in { f \in fits : f[1] = w } } :
                              x <= y
                 x == ExtRun(elem, e + w + n + 1)
             IN  Some([fid |-> SubSeq(elem, b + 1, e - 1),
                       name |-> SubSeq(elem, e + w + 1, e + w + n + x)])

\* a variant of PluginLineStep that leaves the entry of a name already in
\* the table as it is
PluginLineStepKeep(d, elem) ==
    LET m == PluginMatch(elem)
    IN  IF m = None \/ m[1].name \in Keys(d) THEN d
        ELSE DictSet(d, m[1].name, RemoveSym(m[1].fid, ":"))

\* the body of `for elem in segments.plugins`
PluginLineStep(d, elem) ==
    LET m == PluginMatch(elem)
    IN  IF m = None THEN d
        ELSE LET plugin_fid == m[1].fid
                 plugin_name == m[1].name
             IN  IF InNoKey(d, plugin_name)
                 THEN DictSet(d, plugin_name, RemoveSym(plugin_fid, ":"))
                 ELSE IF plugin_name # << >>
                         /\ Contains(Lower(plugin_name), << "dll" >>)
                 THEN DictSet(d, plugin_name, TagDLL)
                 ELSE DictSet(d, plugin_name, TagUnknown)

\* the loop over loadorder_data[1:]
RECURSIVE LoadOrderTable(_, _, _)
LoadOrderTable(d, data, i) ==
    IF i > Len(data) THEN d
    ELSE LoadOrderTable(IF InNoKey(d, data[i]) THEN DictSet(d, data[i], TagLO)
                        ELSE d,
                        data, i + 1)

\* CrashLogSegments.xsemodules_lower
xsemodules_lower(mods) ==
    { IF Contains(Lower(mods[i]), << "dll", " v" >>)
      THEN Strip(SplitOnce(Lower(mods[i]), " v")[1])
      ELSE Strip(Lower(mods[i])) : i \in 1..Len(mods) }

\* some line with "vulkan" has no blank to split on: elem_parts[1] raises
VulkanRaises(mods) ==
    \E i \in 1..Len(mods) :
        /\ Contains(Lower(mods[i]), << "vulkan" >>)
        /\ ~HasSym(Strip(mods[i]), " ")

\* the loop over segments.allmodules
RECURSIVE VulkanTable(_, _, _)
VulkanTable(d, mods, i) ==
    IF i > Len(mods) THEN d
    ELSE LET elem == mods[i]
             first == SplitOnce(Strip(elem), " ")[1]
         IN  VulkanTable(IF Contains(Lower(elem), << "vulkan" >>)
                            /\ InNoKey(d, first)
                         THEN DictSet(d, first, TagDLL)
                         ELSE d,
                         mods, i + 1)

\* the loop over ignore_plugins_list
RECURSIVE IgnoreRemoved(_, _)
IgnoreRemoved(d, ignore) ==
    IF ignore = {} THEN d
    ELSE LET signal == CHOOSE x \in ignore : TRUE
         IN  IgnoreRemoved(IF signal \in Keys(d) THEN DictDel(d, signal) ELSE d,
                           ignore \ {signal})

\* inputs
MasterLine == << "[", "0", "0", "]", " ", "Fallout4", ".esm" >>

ModLine == << "[", "0", "7", "]", " ", "My", "Mod", ".esp" >>

ModLineAgain == << "[", "0", "8", "]", " ", "My", "Mod", ".esp" >>

LightLine == << "[", "F", "E", ":", "0", "0", "1", "]", " ", "Mod", ".esp" >>

LimitLine == << "[", "F", "F", "]" >>

PluginLines == { MasterLine, ModLine, ModLineAgain, LightLine, LimitLine }

PluginSegments == SeqsUpTo(PluginLines, MaxPlugins)

XseSegments ==
    { << >>,
      << << "Buffout4", ".", "dll", " v", "1.28.6" >> >>,
      << << "Buffout4", ".", "dll", " v", "1.28.6" >>,
         << "f4ee", ".", "dll" >> >>,
      << << "extender", ".", "dll" >>,
         << "papyrus", "extender", ".", "dll" >> >> }

ModuleSegments ==
    { << >>, << << "vulkan", "-1.dll", " ", "0x7FFE4A2D0000" >> >> }

IgnoreSets ==
    { {}, { << "my", "mod", ".esp" >> }, { << "f4ee", ".", "dll" >> } }

\* loadorder.txt as read by readlines()
loadorder_data ==
    << << "# This file is used by the game to keep track of your plugins.", "\n" >>,
       << "DLCRobot", ".esm", "\n" >>,
       << "My", "Mod", ".esp", "\n" >> >>

PlgInit ==
    /\ RunIdle
    /\ SegIdle
    /\ SusIdle
    /\ RfmIdle
    /\ ModIdle
    /\ ppc = "start"
    /\ plugins \in PluginSegments
    /\ xsemodules \in XseSegments
    /\ allmodules \in ModuleSegments
    /\ ignore_plugins_list \in IgnoreSets
    /\ loadorder_exists \in BOOLEAN
    /\ crashlog_plugins = << >>
    /\ plugin_index = 0
    /\ xse_left = {}

\* the check for the game's master file, then for loadorder.txt
PlgStart ==
    /\ ppc = "start"
    /\ IF ~\E i \in 1..Len(plugins) : Contains(plugins[i], esm_name)
       THEN /\ ppc' = "done"
            /\ UNCHANGED crashlog_plugins
       ELSE IF loadorder_exists
       THEN /\ crashlog_plugins' =
                 LoadOrderTable(crashlog_plugins, loadorder_data, 2)
            /\ ppc' = "done"
       ELSE /\ ppc' = "plugins"
            /\ UNCHANGED crashlog_plugins
    /\ UNCHANGED << plugins, xsemodules, allmodules, ignore_plugins_list,
                    loadorder_exists, plugin_index, xse_left, segVars, susVars,
                    rfmVars, modVars, runVars >>

\* one pass of `for elem in segments.plugins`
PlgLine ==
    /\ ppc = "plugins"
    /\ plugin_index < Len(plugins)
    /\ crashlog_plugins' =
         PluginLineStep(crashlog_plugins, plugins[plugin_index + 1])
    /\ plugin_index' = plugin_index + 1
    /\ UNCHANGED << ppc, plugins, xsemodules, allmodules, ignore_plugins_list,
                    loadorder_exists, xse_left, segVars, susVars,
                    rfmVars, modVars, runVars >>

\* the loop over the Plugins segment is over: the set of XSE names is built
PlgLinesDone ==
    /\ ppc = "plugins"
    /\ plugin_index = Len(plugins)
    /\ xse_left' = xsemodules_lower(xsemodules)
    /\ ppc' = "xse"
    /\ UNCHANGED << plugins, xsemodules, allmodules, ignore_plugins_list,
                    loadorder_exists, crashlog_plugins, plugin_index,
                    segVars, susVars,
                    rfmVars, modVars, runVars >>

\* one pass of `for elem in segments.xsemodules_lower`: a set, iterated in
\* no particular order
PlgXse ==
    /\ ppc = "xse"
    /\ \E elem \in xse_left :
          /\ crashlog_plugins' =
               IF InNoKey(crashlog_plugins, elem)
               THEN DictSet(crashlog_plugins, elem, TagDLL)
               ELSE crashlog_plugins
          /\ xse_left' = xse_left \ {elem}
    /\ UNCHANGED << ppc, plugins, xsemodules, allmodules, ignore_plugins_list,
                    loadorder_exists, plugin_index, segVars, susVars,
                    rfmVars, modVars, runVars >>

\* the Vulkan modules and the ignored plugins, then the return
PlgFinish ==
    /\ ppc = "xse"
    /\ xse_left = {}
    /\ IF VulkanRaises(allmodules)
       THEN /\ ppc' = "raised"
            /\ UNCHANGED crashlog_plugins
       ELSE /\ crashlog_plugins' =
                 IgnoreRemoved(VulkanTable(crashlog_plugins, allmodules, 1),
                               ignore_plugins_list)
            /\ ppc' = "done"
    /\ UNCHANGED << plugins, xsemodules, allmodules, ignore_plugins_list,
                    loadorder_exists, plugin_index, xse_left, segVars, susVars,
                    rfmVars, modVars, runVars >>

PlgNext == PlgStart \/ PlgLine \/ PlgLinesDone \/ PlgXse \/ PlgFinish

SpecPlugins == PlgInit /\ [][PlgNext]_vars

\* the loop over segments.plugins as a whole, from line i on
RECURSIVE PluginsLoop(_, _, _)
PluginsLoop(d, lines, i) ==
    IF i > Len(lines) THEN d
    ELSE PluginsLoop(PluginLineStep(d, lines[i]), lines, i + 1)

\* the loop over segments.xsemodules_lower, the set being iterated in the
\* order of the sequence order
RECURSIVE XseLoop(_, _, _)
XseLoop(d, order, i) ==
    IF i > Len(order) THEN d
    ELSE XseLoop(IF InNoKey(d, order[i]) THEN DictSet(d, order[i], TagDLL)
                 ELSE d,
                 order, i + 1)

\* the orders a set can be iterated in
Orders(S) ==
    { o \in [1..Cardinality(S) -> S] :
        \A x \in S : \E i \in 1..Cardinality(S) : o[i] = x }

\* a variant of get_crash_log_plugins without the test for the master file
get_crash_log_plugins_unchecked(plgs, xmods, mods, ignore, lo) ==
    IF lo THEN { LoadOrderTable(<< >>, loadorder_data, 2) }
    ELSE IF VulkanRaises(mods) THEN {}
    ELSE { IgnoreRemoved(
             VulkanTable(XseLoop(PluginsLoop(<< >>, plgs, 1), order, 1),
                         mods, 1),
             ignore) : order \in Orders(xsemodules_lower(xmods)) }

\* get_crash_log_plugins as a whole: the tables it can return (one for each
\* iteration order of the XSE names), none when it raises
get_crash_log_plugins(plgs, xmods, mods, ignore, lo) ==
    IF ~\E i \in 1..Len(plgs) : Contains(plgs[i], esm_name) THEN { << >> }
    ELSE IF lo THEN { LoadOrderTable(<< >>, loadorder_data, 2) }
    ELSE IF VulkanRaises(mods) THEN {}
    ELSE { IgnoreRemoved(
             VulkanTable(XseLoop(PluginsLoop(<< >>, plgs, 1), order, 1),
                         mods, 1),
             ignore) : order \in Orders(xsemodules_lower(xmods)) }

(***************************************************************************)
(* crashlogs_reformat.                                                     *)
(***************************************************************************)
\* CMain.yaml_settings(list[str], CMain.YAML.Main, "exclude_log_records")
remove_list == { << "(void*)" >> }

PluginsMarker == << "PLUGINS:" >>

\* fid.replace(" ", "0")
SpacesToZeros(fid) == [i \in 1..Len(fid) |-> IF fid[i] = " " THEN "0" ELSE fid[i]]

\* a variant of BracketRewritten that leaves the line as it is
BracketKept(line) == line

\* f"{indent}[{fid.replace(' ', '0')}]{name}" for a line with "[" and a
\* later "]"
BracketRewritten(line) ==
    LET indent == SplitOnce(line, "[")[1]
        rest == SplitOnce(line, "[")[2]
        fid == SplitOnce(rest, "]")[1]
        name == SplitOnce(rest, "]")[2]
    IN  indent \o << "[" >> \o SpacesToZeros(fid) \o << "]" >> \o name

\* `fid, name = rest.split("]", 1)` has one value to unpack: ValueError
UnpackRaises(line) == ~HasSym(SplitOnce(line, "[")[2], "]")

\* crash_data.pop(i), 0-based
Popped(data, i) == SubSeq(data, 1, i) \o SubSeq(data, i + 2, Len(data))

\* the lines of the files
StackLine ==
    << "\t", "[", "RSP+0", " ", " ", "]", " ", "0x1", " ", "(void*)", "\n" >>

RawMasterLine ==
    << " ", " ", " ", " ", "[", " ", "0", "]", " ", "Fallout4", ".esm", "\n" >>

RawLightLine ==
    << " ", " ", " ", " ", "[", "F", "E", ":", " ", " ", "1", "]", " ",
       "SomeMod", ".esp", "\n" >>

CanonicalLine ==
    << " ", " ", " ", " ", "[", "0", "7", "]", " ", "My", "Mod", ".esp", "\n" >>

OpenBracketLine == << " ", " ", " ", " ", "[", "F", "F", "\n" >>

RegionPool == { RawMasterLine, RawLightLine, CanonicalLine, OpenBracketLine }

ReformatFiles ==
    { pre \o << PluginsMarker \o << "\n" >> >> \o region :
        pre \in SeqsUpTo({ StackLine }, 1),
        region \in SeqsUpTo(RegionPool, MaxPlugins) }
    \cup SeqsUpTo(RegionPool \cup { StackLine }, 1)

\* the segment variables other than crash_data
segRest == << pc, current_index, index_start, segment_index, collect,
              next_boundary, segments, crashlog_gameversion,
              crashlog_crashgen, crashlog_mainerror, iterations, result >>

RfmInit ==
    /\ RunIdle
    /\ SegIdle
    /\ SusIdle
    /\ PlgIdle
    /\ ModIdle
    /\ rpc = "next"
    /\ files_left = MaxFiles
    /\ log_file = << >>
    /\ last_index = 0
    /\ index = 0
    /\ in_plugins = FALSE
    /\ simplify_logs \in BOOLEAN

\* `for file in crashlog_list`: the next file is read
RfmRead ==
    /\ rpc = "next"
    /\ files_left > 0
    /\ \E f \in ReformatFiles :
          /\ log_file' = f
          /\ crash_data' = f
          /\ last_index' = Len(f) - 1
    /\ files_left' = files_left - 1
    /\ index' = 0
    /\ in_plugins' = TRUE
    /\ rpc' = "loop"
    /\ UNCHANGED << simplify_logs, segRest, susVars, plgVars, modVars, runVars >>

\* one pass of `for index, line in enumerate(reversed(crash_data))`
RfmLine ==
    /\ rpc = "loop"
    /\ index <= last_index
    /\ LET reversed_index == last_index - index
           line == crash_data[reversed_index + 1]
           still == in_plugins /\ ~StartsWith(line, PluginsMarker)
       IN  /\ in_plugins' = still
           /\ IF simplify_logs /\ \E string \in remove_list : Contains(line, string)
              THEN /\ crash_data' = Popped(crash_data, reversed_index)
                   /\ rpc' = rpc
              ELSE IF still /\ HasSym(line, "[")
              THEN IF UnpackRaises(line)
                   THEN /\ rpc' = "raised"
                        /\ UNCHANGED crash_data
                   ELSE /\ crash_data' =
                             [crash_data EXCEPT ![reversed_index + 1] =
                                                    BracketRewritten(line)]
                        /\ rpc' = rpc
              ELSE /\ rpc' = rpc
                   /\ UNCHANGED crash_data
    /\ index' = index + 1
    /\ UNCHANGED << files_left, log_file, last_index, simplify_logs, segRest,
                    susVars, plgVars, modVars, runVars >>

\* the loop over the lines is over: the file is written back
RfmWrite ==
    /\ rpc = "loop"
    /\ index > last_index
    /\ log_file' = crash_data
    /\ rpc' = "next"
    /\ UNCHANGED << crash_data, files_left, last_index, index, in_plugins,
                    simplify_logs, segRest, susVars, plgVars, modVars, runVars >>

\* crashlog_list is exhausted
RfmReturn ==
    /\ rpc = "next"
    /\ files_left = 0
    /\ rpc' = "done"
    /\ UNCHANGED << crash_data, files_left, log_file, last_index, index,
                    in_plugins, simplify_logs, segRest, susVars, plgVars,
                    modVars, runVars >>

RfmNext == RfmRead \/ RfmLine \/ RfmWrite \/ RfmReturn

SpecReformat == RfmInit /\ [][RfmNext]_vars

(***************************************************************************)
(* The mod detectors.  A rule table is a dict in insertion order: a        *)
(* sequence of <<key, value>>.                                             *)
(***************************************************************************)
\* {key.lower(): value for key, value in d.items()}
RECURSIVE LowerKeysFrom(_, _, _)
LowerKeysFrom(acc, d, i) ==
    IF i > Len(d) THEN acc
    ELSE LowerKeysFrom(DictSet(acc, Lower(d[i][1]), d[i][2]), d, i + 1)

LowerKeys(d) == LowerKeysFrom(<< >>, d, 1)

\* str.upper() of gpu_rival
Upper(s) ==
    [i \in 1..Len(s) |->
        CASE s[i] = "nvidia" -> "NVIDIA" [] s[i] = "amd" -> "AMD"
          [] OTHER -> s[i]]

\* the place (1-based) of the first entry of table pl whose name contains
\* frag, 0 if there is none
RECURSIVE FirstPlugin(_, _, _)
FirstPlugin(pl, frag, i) ==
    IF i > Len(pl) THEN 0
    ELSE IF Contains(pl[i][1], frag) THEN i
    ELSE FirstPlugin(pl, frag, i + 1)

\* a variant of SingleRule that has no `break`: a warning for every plugin
\* that matches
SingleRuleNoBreak(st, rule, pl) ==
    LET hits == SelectSeq(pl, LAMBDA e : Contains(e[1], rule[1]))
    IN  IF hits = << >> THEN st
        ELSE IF rule[2] = << >> THEN [st EXCEPT !.raised = TRUE]
        ELSE [st EXCEPT
                !.report = @ \o [i \in 1..(2 * Len(hits)) |->
                                   IF i % 2 = 1
                                   THEN << "[!] FOUND : [" >>
                                        \o hits[(i + 1) \div 2][2] \o << "] " >>
                                   ELSE rule[2]],
                !.found = TRUE]

\* detect_mods_single: the body of the loop over the rules, for one rule
\* (key already lower-cased) and the lower-cased table pl
SingleRule(st, rule, pl) ==
    LET at == FirstPlugin(pl, rule[1], 1)
    IN  IF at = 0 THEN st
        ELSE IF rule[2] # << >>
        THEN [st EXCEPT
                !.report = @ \o << << "[!] FOUND : [" >> \o pl[at][2] \o << "] " >>,
                                   rule[2] >>,
                !.found = TRUE]
        ELSE [st EXCEPT !.raised = TRUE]

RECURSIVE SingleLoop(_, _, _, _)
SingleLoop(st, rules, i, pl) ==
    IF i > Len(rules) \/ st.raised THEN st
    ELSE SingleLoop(SingleRule(st, rules[i], pl), rules, i + 1, pl)

\* detect_mods_single: [report, found (the returned flag), raised (ValueError)]
detect_mods_single(yaml_dict, table, report) ==
    SingleLoop([report |-> report, found |-> FALSE, raised |-> FALSE],
               LowerKeys(yaml_dict), 1, LowerKeys(table))

\* detect_mods_double: the loop over the plugin names for the fragments a, b;
\* fl = <<mod1_found, mod2_found>>
RECURSIVE DoubleFlags(_, _, _, _, _)
DoubleFlags(fl, pl, i, a, b) ==
    IF i > Len(pl) THEN fl
    ELSE DoubleFlags(IF ~fl[1] /\ Contains(pl[i][1], a) THEN << TRUE, fl[2] >>
                     ELSE IF ~fl[2] /\ Contains(pl[i][1], b) THEN << fl[1], TRUE >>
                     ELSE fl,
                     pl, i + 1, a, b)

\* a variant of DoubleMatched that is content with one of the fragments
DoubleMatchedEither(key, pl) ==
    \E i \in 1..Len(pl) :
        \/ Contains(pl[i][1], SplitOnce(key, " | ")[1])
        \/ Contains(pl[i][1], SplitOnce(key, " | ")[2])

\* mod1_found and mod2_found, for the rule keyed key ("a | b", lower-cased)
DoubleMatched(key, pl) ==
    LET mod_split == SplitOnce(key, " | ")
        fl == DoubleFlags(<< FALSE, FALSE >>, pl, 1, mod_split[1], mod_split[2])
    IN  fl[1] /\ fl[2]

DoubleRule(st, rule, pl) ==
    IF ~DoubleMatched(rule[1], pl) THEN st
    ELSE IF rule[2] # << >>
    THEN [st EXCEPT !.report = @ \o << << "[!] CAUTION : " >>, rule[2] >>,
                    !.found = TRUE]
    ELSE [st EXCEPT !.raised = TRUE]

RECURSIVE DoubleLoop(_, _, _, _)
DoubleLoop(st, rules, i, pl) ==
    IF i > Len(rules) \/ st.raised THEN st
    ELSE DoubleLoop(DoubleRule(st, rules[i], pl), rules, i + 1, pl)

\* detect_mods_double: [report, found, raised]
detect_mods_double(yaml_dict, table, report) ==
    DoubleLoop([report |-> report, found |-> FALSE, raised |-> FALSE],
               LowerKeys(yaml_dict), 1, LowerKeys(table))

\* mod_found: some plugin name contains the fragment, ignoring case
ImportantFound(key, table) ==
    \E i \in 1..Len(table) :
        Contains(Lower(table[i][1]), Lower(SplitOnce(key, " | ")[1]))

\* a variant of ImportantRule that does not look at the vendor of a mod
\* that is installed
ImportantRulePlain(rule, table, gpu_rival) ==
    LET name == SplitOnce(rule[1], " | ")[2]
    IN  IF ImportantFound(rule[1], table)
        THEN << << "[v] " >> \o name \o << " is installed!\n\n" >> >>
        ELSE IF (gpu_rival # None /\ rule[2] # << >>)
                /\ ~Contains(Lower(rule[2]), gpu_rival)
        THEN << << "[x] " >> \o name \o << " is not installed!\n" >>,
                rule[2], << "\n" >> >>
        ELSE << >>

\* detect_mods_important: the fragments one rule adds to the report (the
\* marks "[?] ", "[v] ", "[x] " stand for the pictographs of the source)
ImportantRule(rule, table, gpu_rival) ==
    LET mod_split == SplitOnce(rule[1], " | ")
        mod_warn == rule[2]
    IN  IF ImportantFound(rule[1], table)
        THEN IF gpu_rival # None /\ Contains(Lower(mod_warn), gpu_rival)
             THEN << << "[?] " >> \o mod_split[2]
                        \o << " is installed, BUT IT SEEMS YOU DON'T HAVE AN " >>
                        \o Upper(gpu_rival) \o << " GPU?\n" >>,
                     << "IF THIS IS CORRECT, COMPLETELY UNINSTALL THIS MOD TO AVOID ANY PROBLEMS! \n\n" >> >>
             ELSE << << "[v] " >> \o mod_split[2] \o << " is installed!\n\n" >> >>
        ELSE IF (gpu_rival # None /\ mod_warn # << >>)
                /\ ~Contains(Lower(mod_warn), gpu_rival)
        THEN << << "[x] " >> \o mod_split[2] \o << " is not installed!\n" >>,
                mod_warn, << "\n" >> >>
        ELSE << >>

\* detect_mods_important: the report after the loop over the rules from i on
RECURSIVE detect_mods_important(_, _, _, _, _)
detect_mods_important(yaml_dict, i, table, report, gpu_rival) ==
    IF i > Len(yaml_dict) THEN report
    ELSE detect_mods_important(
             yaml_dict, i + 1, table,
             report \o ImportantRule(yaml_dict[i], table, gpu_rival), gpu_rival)

\* get_gpu_info
get_gpu_info(system_segment) ==
    LET gpu_amd == \E i \in 1..Len(system_segment) :
                       /\ Contains(system_segment[i], << "GPU #1" >>)
                       /\ Contains(system_segment[i], << "AMD" >>)
        gpu_nvidia == \E i \in 1..Len(system_segment) :
                          /\ Contains(system_segment[i], << "GPU #1" >>)
                          /\ Contains(system_segment[i], << "Nvidia" >>)
    IN  << gpu_amd, gpu_nvidia, ~gpu_amd /\ ~gpu_nvidia >>

\* gpu_rival of process_mod_compatibility
GpuRival(info) ==
    IF info[1] THEN << "nvidia" >> ELSE IF info[2] THEN << "amd" >> ELSE None

(***************************************************************************)
(* process_crash_log from the plugin table on: process_mod_compatibility   *)
(* and the "incomplete" statistic of crashlogs_scan.                       *)
(***************************************************************************)
game == "Fallout4"

\* yamldata.warn_noplugins
warn_noplugins == << "Warn_NOPlugins" >>

RuleLine == << "====================================================\n" >>

Heading(title) == << RuleLine, << title >>, RuleLine >>

FrequentTitle == "CHECKING FOR MODS THAT CAN CAUSE FREQUENT CRASHES...\n"

ConflictsTitle == "CHECKING FOR MODS THAT CONFLICT WITH OTHER MODS...\n"

SolutionsTitle == "CHECKING FOR MODS WITH SOLUTIONS & COMMUNITY PATCHES\n"

PatchesTitle == "CHECKING FOR MODS PATCHED THROUGH OPC INSTALLER...\n"

ImportantTitle == "CHECKING IF IMPORTANT PATCHES & FIXES ARE INSTALLED\n"

FrequentFound ==
    << << "# [!] CAUTION : ANY ABOVE DETECTED MODS HAVE A MUCH HIGHER CHANCE TO CRASH YOUR GAME! #\n" >>,
       << "* YOU CAN DISABLE ANY / ALL OF THEM TEMPORARILY TO CONFIRM THEY CAUSED THIS CRASH. * \n\n" >> >>

FrequentNone ==
    << << "# FOUND NO PROBLEMATIC MODS THAT MATCH THE CURRENT DATABASE FOR THIS CRASH LOG #\n" >>,
       << "THAT DOESN'T MEAN THERE AREN'T ANY! YOU SHOULD RUN PLUGIN CHECKER IN WRYE BASH \n" >>,
       << "Plugin Checker Instructions: https://www.nexusmods.com/fallout4/articles/4141 \n\n" >> >>

ConflictsFound ==
    << << "# [!] CAUTION : FOUND MODS THAT ARE INCOMPATIBLE OR CONFLICT WITH YOUR OTHER MODS # \n" >>,
       << "* YOU SHOULD CHOOSE WHICH MOD TO KEEP AND DISABLE OR COMPLETELY REMOVE THE OTHER MOD * \n\n" >> >>

ConflictsNone ==
    << << "# FOUND NO MODS THAT ARE INCOMPATIBLE OR CONFLICT WITH YOUR OTHER MODS # \n\n" >> >>

SolutionsFound ==
    << << "# [!] CAUTION : FOUND PROBLEMATIC MODS WITH SOLUTIONS AND COMMUNITY PATCHES # \n" >>,
       << "[Due to limitations, CLASSIC will show warnings for some mods even if fixes or patches are already installed.] \n" >>,
       << "[To hide these warnings, you can add their plugin names to the CLASSIC Ignore.yaml file. ONE PLUGIN PER LINE.] \n\n" >> >>

SolutionsNone ==
    << << "# FOUND NO PROBLEMATIC MODS WITH AVAILABLE SOLUTIONS AND COMMUNITY PATCHES # \n\n" >> >>

PatchesFound ==
    << << "\n* FOR PATCH REPOSITORY THAT PREVENTS CRASHES AND FIXES PROBLEMS IN THESE AND OTHER MODS,* \n" >>,
       << "* VISIT OPTIMIZATION PATCHES COLLECTION: https://www.nexusmods.com/fallout4/mods/54872 * \n\n" >> >>

PatchesNone ==
    << << "# FOUND NO PROBLEMATIC MODS THAT ARE ALREADY PATCHED THROUGH THE OPC INSTALLER # \n\n" >> >>

\* a section made of a heading and a detector with a result: the report
\* after it, and whether the detector raised
Section(report, title, table, det, found, none) ==
    IF table # << >>
    THEN IF det.raised THEN [report |-> det.report, raised |-> TRUE]
         ELSE [report |-> det.report \o (IF det.found THEN found ELSE none),
               raised |-> FALSE]
    ELSE [report |-> report \o Heading(title) \o << warn_noplugins >>,
          raised |-> FALSE]

\* the first section of process_mod_compatibility
FrequentSection(report, table, rules) ==
    Section(report, FrequentTitle, table,
            detect_mods_single(rules, table, report \o Heading(FrequentTitle)),
            FrequentFound, FrequentNone)

process_mod_conflicts(report, table, rules) ==
    Section(report, ConflictsTitle, table,
            detect_mods_double(rules, table, report \o Heading(ConflictsTitle)),
            ConflictsFound, ConflictsNone)

process_mod_solutions(report, table, rules) ==
    Section(report, SolutionsTitle, table,
            detect_mods_single(rules, table, report \o Heading(SolutionsTitle)),
            SolutionsFound, SolutionsNone)

process_mod_patches(report, table, rules) ==
    IF game # "Fallout4" THEN [report |-> report, raised |-> FALSE]
    ELSE Section(report, PatchesTitle, table,
                 detect_mods_single(rules, table, report \o Heading(PatchesTitle)),
                 PatchesFound, PatchesNone)

process_important_mods(report, table, core, folon, gpu_rival) ==
    IF table # << >>
    THEN IF \E i \in 1..Len(table) :
               Contains(Lower(table[i][1]), << "london", "worldspace" >>)
         THEN detect_mods_important(folon, 1, table,
                                    report \o Heading(ImportantTitle), gpu_rival)
         ELSE detect_mods_important(core, 1, table,
                                    report \o Heading(ImportantTitle), gpu_rival)
    ELSE report \o Heading(ImportantTitle) \o << warn_noplugins >>

\* inputs
WeaponLine == << "[", "0", "7", "]", " ", "My", "Weapon", "Mod", ".esp" >>

OtherLine == << "[", "0", "8", "]", " ", "Other", "Weapon", ".esl" >>

LondonLine == << "[", "0", "9", "]", " ", "London", "WorldSpace", ".esm" >>

\* the sequences of SeqsUpTo(S, n) that hold no element twice
DistinctSeqsUpTo(S, n) ==
    { q \in SeqsUpTo(S, n) :
        \A a \in 1..Len(q) : \A b \in 1..Len(q) : a # b => q[a] # q[b] }

ModPluginSegments ==
    DistinctSeqsUpTo({ MasterLine, WeaponLine, OtherLine, LondonLine },
                     MaxPlugins)

Systems ==
    { << >>,
      << << "GPU #1", ": ", "AMD", " Radeon RX 6800" >> >>,
      << << "GPU #1", ": ", "Nvidia", " GeForce RTX 3080" >> >> }

FreqTables ==
    DistinctSeqsUpTo(
        { << << "Weapon" >>, << "Weapon mods crash often\n" >> >>,
          << << "mod", ".esp" >>, << >> >>,
          << << "scrap" >>, << "Scrap mods crash often\n" >> >> },
        MaxRules)

WeaponWarning == << "Warning: incompatible weapon mods" >>

WeaponRuleEsp ==
    << << "my", "weapon", "mod", ".esp", " | ", "other", "weapon", ".esp" >>,
       WeaponWarning >>

WeaponRuleEsl ==
    << << "my", "weapon", "mod", ".esp", " | ", "other", "weapon", ".esl" >>,
       WeaponWarning >>

FragmentsRule == << << "weapon", " | ", "mod" >>, << "Two weapon mods\n" >> >>

ConfTables ==
    { << >>, << WeaponRuleEsp >>, << WeaponRuleEsl >>, << FragmentsRule >>,
      << FragmentsRule, WeaponRuleEsl >> }

CoreRules ==
    << << << "my", " | ", "Weapon Debris Crash Fix" >>,
          << "Only for ", "NVIDIA", " cards\n" >> >>,
       << << "other", " | ", "Other Fix" >>,
          << "Only for ", "AMD", " cards\n" >> >>,
       << << "Weapon", " | ", "Weapon Fix" >>, << "Needed by everyone\n" >> >>,
       << << "mod", " | ", "Mod Fix" >>, << >> >> >>

game_mods_core_folon ==
    << << << "london", " | ", "London Fix" >>, << "Needed for London\n" >> >>,
       << << "other", " | ", "Other Fix" >>, << "Only for ", "AMD", " cards\n" >> >> >>

game_mods_solu == << << << "other" >>, << "A patch is available\n" >> >> >>

game_mods_opc2 == << << << "weapon", "mod" >>, << "Patched through OPC\n" >> >> >>

\* the variables of the other machines that a log being processed leaves alone
susRest == << spc, mainerror, callstack_intact, suspects_error_list,
              suspects_stack_list, rule_index, trigger_suspect_found >>

plgRest == << ppc, plugins, xsemodules, allmodules, ignore_plugins_list,
              loadorder_exists, plugin_index, xse_left >>

modRest == << system, game_mods_freq, game_mods_conf, game_mods_core >>

ModInit ==
    /\ RunIdle
    /\ SegIdle
    /\ SusIdle
    /\ RfmIdle
    /\ ppc = "idle"
    /\ plugins \in ModPluginSegments
    /\ xsemodules = << << "f4ee", ".", "dll" >> >>
    /\ allmodules = << >>
    /\ ignore_plugins_list = {}
    /\ loadorder_exists = FALSE
    /\ crashlog_plugins = << >>
    /\ plugin_index = 0
    /\ xse_left = {}
    /\ mpc = "plugins"
    /\ system \in Systems
    /\ gpu_info = << FALSE, FALSE, FALSE >>
    /\ trigger_plugins_loaded = FALSE
    /\ incomplete = 0
    /\ game_mods_freq \in FreqTables
    /\ game_mods_conf \in ConfTables
    /\ game_mods_core = CoreRules

\* process_crash_log: the plugin table and the GPU information
ModGetPlugins ==
    /\ mpc = "plugins"
    /\ LET tables == get_crash_log_plugins(plugins, xsemodules, allmodules,
                                           ignore_plugins_list, loadorder_exists)
       IN  IF tables = {}
           THEN /\ mpc' = "raised"
                /\ UNCHANGED << crashlog_plugins, trigger_plugins_loaded,
                                gpu_info >>
           ELSE /\ \E t \in tables :
                      /\ crashlog_plugins' = t
                      /\ trigger_plugins_loaded' = (t # << >>)
                /\ gpu_info' = get_gpu_info(system)
                /\ mpc' = "frequent"
    /\ UNCHANGED << autoscan_report, incomplete, modRest, plgRest, susRest,
                    segVars, rfmVars,
                    runVars >>

\* what the writing of a section of the report leaves alone
sectionRest == << crashlog_plugins, gpu_info, trigger_plugins_loaded,
                  incomplete, modRest, plgRest, susRest, segVars, rfmVars,
                    runVars >>

\* process_mod_compatibility up to the call of process_mod_conflicts
ModFrequent ==
    /\ mpc = "frequent"
    /\ LET out == FrequentSection(autoscan_report, crashlog_plugins,
                                  game_mods_freq)
       IN  /\ autoscan_report' = out.report
           /\ mpc' = IF out.raised THEN "raised" ELSE "conflicts"
    /\ UNCHANGED sectionRest

ModConflicts ==
    /\ mpc = "conflicts"
    /\ LET out == process_mod_conflicts(autoscan_report, crashlog_plugins,
                                        game_mods_conf)
       IN  /\ autoscan_report' = out.report
           /\ mpc' = IF out.raised THEN "raised" ELSE "solutions"
    /\ UNCHANGED sectionRest

ModSolutions ==
    /\ mpc = "solutions"
    /\ LET out == process_mod_solutions(autoscan_report, crashlog_plugins,
                                        game_mods_solu)
       IN  /\ autoscan_report' = out.report
           /\ mpc' = IF out.raised THEN "raised" ELSE "patches"
    /\ UNCHANGED sectionRest

ModPatches ==
    /\ mpc = "patches"
    /\ LET out == process_mod_patches(autoscan_report, crashlog_plugins,
                                      game_mods_opc2)
       IN  /\ autoscan_report' = out.report
           /\ mpc' = IF out.raised THEN "raised" ELSE "important"
    /\ UNCHANGED sectionRest

ModImportant ==
    /\ mpc = "important"
    /\ autoscan_report' =
         process_important_mods(autoscan_report, crashlog_plugins,
                                game_mods_core, game_mods_core_folon,
                                GpuRival(gpu_info))
    /\ mpc' = "stats"
    /\ UNCHANGED sectionRest

\* crashlogs_scan: the log is counted as incomplete
ModStats ==
    /\ mpc = "stats"
    /\ incomplete' = IF ~trigger_plugins_loaded THEN incomplete + 1
                     ELSE incomplete
    /\ mpc' = "done"
    /\ UNCHANGED << autoscan_report, crashlog_plugins, gpu_info,
                    trigger_plugins_loaded, modRest, plgRest, susRest, segVars,
                    rfmVars,
                    runVars >>

ModNext ==
    \/ ModGetPlugins \/ ModFrequent \/ ModConflicts \/ ModSolutions
    \/ ModPatches \/ ModImportant \/ ModStats

SpecMods == ModInit /\ [][ModNext]_vars

(***************************************************************************)
(* crashlogs_scan: the loop over the logs of a batch.  A log is handled in *)
(* three steps: process_crash_log, the statistics, write_autoscan_report.  *)
(***************************************************************************)
\* `if len(crash_data) < 20` of process_crash_log
min_log_lines == 20

\* parse_crash_log_segments: the six segments of the log
parse_crash_log_segments(data) ==
    LET found == find_segments(data).segments
    IN  IF Len(found) < NSegments THEN [i \in 1..NSegments |-> << >>]
        ELSE found

\* process_special_mods: yamldata.crashgen_ignore after the call
process_special_mods(xmods, ignored, fcx) ==
    IF fcx THEN ignored
    ELSE IF << "x-cell-fo4", ".", "dll" >> \in xmods
    THEN ignored \cup { << "MemoryManager" >>, << "HavokMemorySystem" >>,
                        << "ScaleformAllocator" >>, << "SmallBlockAllocator" >> }
    ELSE IF << "bakascrapheap", ".", "dll" >> \in xmods
    THEN ignored \cup { << "MemoryManager" >> }
    ELSE ignored

\* process_mod_compatibility: the five sections in a row, left at the first
\* ValueError
process_mod_compatibility(table, freq, conf, core, info) ==
    LET a == FrequentSection(<< >>, table, freq)
        b == process_mod_conflicts(a.report, table, conf)
        c == process_mod_solutions(b.report, table, game_mods_solu)
        d == process_mod_patches(c.report, table, game_mods_opc2)
    IN  IF a.raised THEN a
        ELSE IF b.raised THEN b
        ELSE IF c.raised THEN c
        ELSE IF d.raised THEN d
        ELSE [report |-> process_important_mods(d.report, table, core,
                                                game_mods_core_folon,
                                                GpuRival(info)),
              raised |-> FALSE]

\* process_crash_log: the ways the call can end for the lines of a log:
\* with an exception (raised), or with the two returned flags; and the
\* crashgen_ignore set it leaves
process_crash_log(data, ignored, fcx, freq, conf, core) ==
    IF Len(data) < min_log_lines
    THEN { [raised |-> FALSE, trigger_scan_failed |-> TRUE,
            trigger_plugins_loaded |-> FALSE, crashgen_ignore |-> ignored] }
    ELSE LET segs == parse_crash_log_segments(data)
             tables == get_crash_log_plugins(segs[6], segs[5], segs[4],
                                             {}, FALSE)
             special == process_special_mods(xsemodules_lower(segs[5]),
                                             ignored, fcx)
         IN  IF tables = {}
             THEN { [raised |-> TRUE, trigger_scan_failed |-> FALSE,
                     trigger_plugins_loaded |-> FALSE,
                     crashgen_ignore |-> ignored] }
             ELSE { [raised |-> process_mod_compatibility(
                                    t, freq, conf, core,
                                    get_gpu_info(segs[2])).raised,
                     trigger_scan_failed |-> FALSE,
                     trigger_plugins_loaded |-> t # << >>,
                     crashgen_ignore |-> special] : t \in tables }

\* a variant of StatsAfter that counts a failed log as scanned too
StatsAfterKeepScanned(st, name, scan_failed, plugins_loaded) ==
    [scanned |-> st.scanned + 1,
     failed |-> IF scan_failed THEN st.failed + 1 ELSE st.failed,
     scan_failed_list |-> IF scan_failed THEN Append(st.scan_failed_list, name)
                          ELSE st.scan_failed_list,
     incomplete |-> IF ~plugins_loaded THEN st.incomplete + 1
                    ELSE st.incomplete]

\* crashlogs_scan: "Update statistics"
StatsAfter(st, name, scan_failed, plugins_loaded) ==
    [scanned |-> IF scan_failed THEN st.scanned + 1 - 1 ELSE st.scanned + 1,
     failed |-> IF scan_failed THEN st.failed + 1 ELSE st.failed,
     scan_failed_list |-> IF scan_failed THEN Append(st.scan_failed_list, name)
                          ELSE st.scan_failed_list,
     incomplete |-> IF ~plugins_loaded THEN st.incomplete + 1
                    ELSE st.incomplete]

\* input logs: n lines that are no marker
Pad(n) == [i \in 1..n |-> ContentLine(3, 1)]

\* a log of the crash logger with these XSE module and plugin lines
BatchLog(xmods, plgs) ==
    << GameLine, CrashgenLine, ErrorLine1,
       StartMarker(1), StartMarker(2), StartMarker(3) >>
    \o Pad(min_log_lines - 9)
    \o << StartMarker(4), StartMarker(5) >> \o xmods
    \o << StartMarker(6) >> \o plgs

\* a log cut short, a log without a marker, a log with plugins, one with
\* the X-Cell module, one whose Plugins segment lacks the master file
LogPool ==
    { SubSeq(BatchLog(<< >>, << MasterLine >>), 1, min_log_lines - 1),
      Pad(min_log_lines),
      BatchLog(<< >>, << MasterLine, WeaponLine >>),
      BatchLog(<< << "x-cell-fo4", ".", "dll" >>, << "f4ee", ".", "dll" >> >>,
               << MasterLine, OtherLine >>),
      BatchLog(<< >>, << OtherLine >>) }

\* yamldata.crashgen_ignore as loaded
crashgen_ignore_loaded == { << "F4EE" >> }

ScanInit ==
    /\ SegIdle
    /\ SusIdle
    /\ PlgIdle
    /\ RfmIdle
    /\ mpc = "idle"
    /\ system = << >>
    /\ gpu_info = << FALSE, FALSE, FALSE >>
    /\ trigger_plugins_loaded = FALSE
    /\ incomplete = 0
    /\ game_mods_freq \in
         { << << << "Weapon" >>, << "Weapon mods crash often\n" >> >> >>,
           << << << "Weapon" >>, << >> >> >> }
    /\ game_mods_conf = << >>
    /\ game_mods_core = CoreRules
    /\ bpc = "loop"
    /\ crashlog_list \in SeqsUpTo(LogPool, MaxFiles)
    /\ log_no = 0
    /\ scanned = 0
    /\ failed = 0
    /\ scan_failed_list = << >>
    /\ trigger_scan_failed = FALSE
    /\ written = << >>
    /\ crashgen_ignore = crashgen_ignore_loaded
    /\ fcx_mode \in BOOLEAN
    /\ summary = << >>
    /\ WrtIdle
    /\ DbIdle
    /\ YmlIdle

\* what the steps of the batch loop leave alone
scanRest == << crashlog_list, fcx_mode, game_mods_freq, game_mods_conf,
               game_mods_core, mpc, system, gpu_info, segVars, susVars,
               plgVars, rfmVars, wrtVars, dbVars, ymlVars >>

\* the call of process_crash_log for the next log; an exception leaves
\* crashlogs_scan
ScanProcess ==
    /\ bpc = "loop"
    /\ log_no < Len(crashlog_list)
    /\ \E out \in process_crash_log(crashlog_list[log_no + 1], crashgen_ignore,
                                    fcx_mode, game_mods_freq, game_mods_conf,
                                    game_mods_core) :
          /\ IF out.raised
             THEN /\ bpc' = "raised"
                  /\ UNCHANGED << trigger_scan_failed, trigger_plugins_loaded >>
             ELSE /\ bpc' = "stats"
                  /\ trigger_scan_failed' = out.trigger_scan_failed
                  /\ trigger_plugins_loaded' = out.trigger_plugins_loaded
          /\ crashgen_ignore' = out.crashgen_ignore
    /\ UNCHANGED << log_no, scanned, failed, scan_failed_list, incomplete,
                    written, summary, scanRest >>

\* the statistics of the log
ScanStats ==
    /\ bpc = "stats"
    /\ LET st == StatsAfter([scanned |-> scanned, failed |-> failed,
                             scan_failed_list |-> scan_failed_list,
                             incomplete |-> incomplete],
                            log_no + 1, trigger_scan_failed,
                            trigger_plugins_loaded)
       IN  /\ scanned' = st.scanned
           /\ failed' = st.failed
           /\ scan_failed_list' = st.scan_failed_list
           /\ incomplete' = st.incomplete
    /\ bpc' = "write"
    /\ UNCHANGED << log_no, trigger_scan_failed, trigger_plugins_loaded,
                    crashgen_ignore, written, summary, scanRest >>

\* write_autoscan_report for the log; the loop goes to the next log
ScanWrite ==
    /\ bpc = "write"
    /\ written' = Append(written, log_no + 1)
    /\ log_no' = log_no + 1
    /\ bpc' = "loop"
    /\ UNCHANGED << scanned, failed, scan_failed_list, incomplete,
                    trigger_scan_failed, trigger_plugins_loaded,
                    crashgen_ignore, summary, scanRest >>

\* after the loop: print_final_stats
ScanFinish ==
    /\ bpc = "loop"
    /\ log_no = Len(crashlog_list)
    /\ summary' = scan_failed_list
    /\ bpc' = "done"
    /\ UNCHANGED << log_no, scanned, failed, scan_failed_list, incomplete,
                    trigger_scan_failed, trigger_plugins_loaded,
                    crashgen_ignore, written, scanRest >>

ScanNext == ScanProcess \/ ScanStats \/ ScanWrite \/ ScanFinish

SpecScan == ScanInit /\ [][ScanNext]_vars

(***************************************************************************)
(* write_autoscan_report.                                                  *)
(***************************************************************************)
\* s.replace(old, new): the occurrences of old from the left, none
\* overlapping another
RECURSIVE Replace(_, _, _)
Replace(s, old, new) ==
    IF Len(s) < Len(old) \/ old = << >> THEN s
    ELSE IF SubSeq(s, 1, Len(old)) = old
    THEN new \o Replace(SubSeq(s, Len(old) + 1, Len(s)), old, new)
    ELSE << s[1] >> \o Replace(Tail(s), old, new)

\* str(user_folder.parent): the root of a file system is printed with its
\* separator, any other directory without one after it
user_path_1(folder) == folder.parent \o << "\\" >> \o folder.name

user_path_2(folder) == folder.parent \o << "/" >> \o folder.name

\* the body of the loop over the fragments, for one fragment
Sanitized(line, folder) ==
    IF Contains(line, folder.name)
    THEN Replace(Replace(line, user_path_1(folder), << "******" >>),
                 user_path_2(folder), << "******" >>)
    ELSE line

\* "".join(...)
RECURSIVE Join(_)
Join(lines) == IF lines = << >> THEN << >> ELSE Head(lines) \o Join(Tail(lines))

\* str(user_folder): the parent, the separator of the system unless the
\* parent is a root and ends with it, and the name
HomePath(folder) ==
    IF folder.parent[Len(folder.parent)] = folder.sep
    THEN folder.parent \o folder.name
    ELSE folder.parent \o << folder.sep >> \o folder.name

\* home directories: C:\Users\bob, /home/bob, /root
HomeFolders ==
    { [parent |-> << "C:", "\\", "Users" >>, sep |-> "\\", name |-> << "bob" >>],
      [parent |-> << "/", "home" >>, sep |-> "/", name |-> << "bob" >>],
      [parent |-> << "/" >>, sep |-> "/", name |-> << "root" >>] }

\* fragments of a report: without the user's name, with the name alone,
\* with the home directory, with either spelling put together by the code
FragmentPool(folder) ==
    { << "Main Error: EXCEPTION_ACCESS_VIOLATION\n" >>,
      << "Mod by " >> \o folder.name \o << "\n" >>,
      << "Log: " >> \o HomePath(folder) \o << folder.sep, "Documents", "\n" >>,
      << "Ini: " >> \o user_path_1(folder) \o << " or " >>
          \o user_path_2(folder) \o << "\n" >> }

WrtInit ==
    /\ SegIdle
    /\ PlgIdle
    /\ RfmIdle
    /\ ModIdle
    /\ ScanIdle
    /\ DbIdle
    /\ YmlIdle
    /\ spc = "idle"
    /\ mainerror = << >>
    /\ callstack_intact = << >>
    /\ suspects_error_list = << >>
    /\ suspects_stack_list = << >>
    /\ rule_index = 0
    /\ trigger_suspect_found = FALSE
    /\ wpc = "write"
    /\ user_folder \in HomeFolders
    /\ autoscan_report \in SeqsUpTo(FragmentPool(user_folder), MaxLines)
    /\ sanitized_report = << >>
    /\ autoscan_file = << >>

\* write_autoscan_report
WrtWrite ==
    /\ wpc = "write"
    /\ sanitized_report' =
         [i \in 1..Len(autoscan_report) |->
            Sanitized(autoscan_report[i], user_folder)]
    /\ autoscan_file' = Join(sanitized_report')
    /\ wpc' = "done"
    /\ UNCHANGED << user_folder, segVars, susVars, plgVars, rfmVars, modVars,
                    scanVars, dbVars, ymlVars >>

WrtNext == WrtWrite

SpecWrite == WrtInit /\ [][WrtNext]_vars

(***************************************************************************)
(* get_entry and the FormID databases.                                     *)
(***************************************************************************)
\* calls of get_entry and insertions in one run
MaxCalls == 3

\* rows the two databases hold at most
MaxRows == 2

\* d.get(k)
DictGetOrNone(d, k) == IF k \in Keys(d) THEN DictGet(d, k) ELSE None

\* SELECT entry FROM ... WHERE formid=? AND plugin=? COLLATE nocase, fetchone()
fetchone(rows, formid, plugin) ==
    LET hits == SelectSeq(rows, LAMBDA r : /\ r.formid = formid
                                           /\ Lower(r.plugin) = Lower(plugin))
    IN IF hits = << >> THEN None ELSE << hits[1].entry >>

\* the rows fetched from the databases that are files, in the order of DB_PATHS
Fetched(dbs, formid, plugin) ==
    SelectSeq([i \in 1..Len(dbs) |->
                 IF dbs[i].is_file
                 THEN fetchone(dbs[i].rows, formid, plugin) ELSE None],
              LAMBDA row : row # None)

\* get_entry without the look into query_cache
get_entry_uncached(qc, dbs, formid, plugin) ==
    LET found == Fetched(dbs, formid, plugin)
    IN IF found # << >>
       THEN [result |-> found[1][1], hit |-> FALSE, wrote |-> TRUE,
             cache |-> DictSet(qc, << formid, plugin >>, found[1][1])]
       ELSE [result |-> None, hit |-> FALSE, wrote |-> FALSE, cache |-> qc]

\* get_entry: the value returned, the cache afterwards
get_entry(qc, dbs, formid, plugin) ==
    LET entry == DictGetOrNone(qc, << formid, plugin >>)
        found == Fetched(dbs, formid, plugin)
    IN IF entry # None
       THEN [result |-> entry, hit |-> TRUE, wrote |-> FALSE, cache |-> qc]
       ELSE IF found # << >>
       THEN [result |-> found[1][1], hit |-> FALSE, wrote |-> TRUE,
             cache |-> DictSet(qc, << formid, plugin >>, found[1][1])]
       ELSE [result |-> None, hit |-> FALSE, wrote |-> FALSE, cache |-> qc]

FormIDs == { << "0", "0", "1" >>, << "0", "0", "2" >> }

\* plugin names as a log and as a database spell them
PluginNames == { << "Mod", ".ESP" >>, << "mod", ".esp" >> }

Entries == { << "Pipe", "Rifle" >>, << "Laser", "Musket" >> }

\* plugin | formid | entry
DbRows == [plugin : { << "Mod", ".ESP" >> },
           formid : { << "0", "0", "1" >> },
           entry : Entries]

Databases ==
    { [is_file |-> FALSE, rows |-> << >>] }
      \cup { [is_file |-> TRUE, rows |-> << >>] }
      \cup { [is_file |-> TRUE, rows |-> << r >>] : r \in DbRows }

DbInit ==
    /\ SegIdle
    /\ SusIdle
    /\ PlgIdle
    /\ RfmIdle
    /\ ModIdle
    /\ ScanIdle
    /\ WrtIdle
    /\ YmlIdle
    /\ query_cache = << >>
    /\ db_main \in Databases
    /\ db_local \in Databases
    /\ calls = 0
    /\ entry_key = << >>
    /\ entry_result = << >>
    /\ entry_hit = FALSE
    /\ cache_writes = << >>

dbRest == << segVars, susVars, plgVars, rfmVars, modVars, scanVars, wrtVars,
            ymlVars >>

\* one call of get_entry
DbGetEntry ==
    /\ calls < MaxCalls
    /\ \E formid \in FormIDs, plugin \in PluginNames :
         LET out == get_entry(query_cache, << db_main, db_local >>,
                              formid, plugin)
         IN /\ query_cache' = out.cache
            /\ entry_key' = << formid, plugin >>
            /\ entry_result' = out.result
            /\ entry_hit' = out.hit
            /\ cache_writes' = IF out.wrote
                               THEN Append(cache_writes, << formid, plugin >>)
                               ELSE cache_writes
    /\ calls' = calls + 1
    /\ UNCHANGED << db_main, db_local, dbRest >>

\* a database tool adds a row between two calls
DbInsert ==
    /\ calls < MaxCalls
    /\ \E r \in DbRows, main \in BOOLEAN :
         LET db == IF main THEN db_main ELSE db_local
             new == [is_file |-> TRUE, rows |-> Append(db.rows, r)]
         IN /\ Len(db_main.rows) + Len(db_local.rows) < MaxRows
            /\ db_main' = IF main THEN new ELSE db_main
            /\ db_local' = IF main THEN db_local ELSE new
    /\ UNCHANGED << query_cache, calls, entry_key, entry_result, entry_hit,
                    cache_writes, dbRest >>

DbNext == DbGetEntry \/ DbInsert

SpecEntry == DbInit /\ [][DbNext]_vars

(***************************************************************************)
(* YamlSettingsCache: load_yaml and get_setting on one YAML store.         *)
(***************************************************************************)
\* calls of get_setting in one run
MaxOps == 3

\* key_path.split(".")
RECURSIVE split(_, _)
split(s, sep) ==
    IF \A i \in 1..Len(s) : s[i] # sep
    THEN << s >>
    ELSE LET i == CHOOSE j \in 1..Len(s) :
                    s[j] = sep /\ \A k \in 1..(j - 1) : s[k] # sep
         IN << SubSeq(s, 1, i - 1) >> \o split(SubSeq(s, i + 1, Len(s)), sep)

IsInt(t) == t # << >> /\ \A i \in 1..Len(t) : t[i] \in DecimalDigits

\* the value the YAML loader resolves the text of a scalar to
LoadScalar(t) ==
    IF t = << >> \/ t \in { << "null" >>, << "~" >> } THEN NoneVal
    ELSE IF t[1] = "'" THEN StrVal(SubSeq(t, 2, Len(t) - 1))
    ELSE IF t \in { << "true" >>, << "True" >> } THEN BoolVal(<< "True" >>)
    ELSE IF t \in { << "false" >>, << "False" >> } THEN BoolVal(<< "False" >>)
    ELSE IF IsInt(t) THEN IntVal(t)
    ELSE StrVal(t)

\* a dumper that writes every string plain
DumpScalarPlain(v) ==
    CASE v.kind = "bool" ->
           IF v.text = << "True" >> THEN << "true" >> ELSE << "false" >>
      [] v.kind = "none" -> << >>
      [] OTHER -> v.text

\* the text the YAML dumper writes for a scalar: a string that would load as
\* something else is quoted
DumpScalar(v) ==
    CASE v.kind = "bool" ->
           IF v.text = << "True" >> THEN << "true" >> ELSE << "false" >>
      [] v.kind = "none" -> << >>
      [] v.kind = "str" ->
           IF LoadScalar(v.text) = v THEN v.text
           ELSE << "'" >> \o v.text \o << "'" >>
      [] OTHER -> v.text

\* yaml.dump: the lines of the items of a mapping or list at depth n
RECURSIVE Dump(_, _)
Dump(items, n) ==
    IF items = << >> THEN << >>
    ELSE LET k == items[1][1]
             v == items[1][2]
             own ==
               IF v.kind \in { "dict", "list" }
               THEN IF v.items = << >>
                    THEN << [indent |-> n, key |-> k,
                             text |-> IF v.kind = "dict" THEN << "{}" >>
                                      ELSE << "[]" >>] >>
                    ELSE << [indent |-> n, key |-> k, text |-> << >>] >>
                           \o Dump(v.items, n + 1)
               ELSE << [indent |-> n, key |-> k, text |-> DumpScalar(v)] >>
         IN own \o Dump(Tail(items), n)

\* yaml.load: the items the lines of one depth and below stand for
RECURSIVE Load(_)
Load(lines) ==
    IF lines = << >> THEN << >>
    ELSE LET head == lines[1]
             next == CHOOSE j \in 2..(Len(lines) + 1) :
                       /\ j = Len(lines) + 1 \/ lines[j].indent <= head.indent
                       /\ \A i \in 2..(j - 1) : lines[i].indent > head.indent
             block == SubSeq(lines, 2, next - 1)
             value ==
               IF block # << >>
               THEN IF block[1].key = << "-" >> THEN ListVal(Load(block))
                    ELSE DictVal(Load(block))
               ELSE IF head.text = << "{}" >> THEN DictVal(<< >>)
               ELSE IF head.text = << "[]" >> THEN ListVal(<< >>)
               ELSE LoadScalar(head.text)
         IN << << head.key, value >> >>
              \o Load(SubSeq(lines, next, Len(lines)))

\* load_yaml: the cache and the recorded modification time afterwards
load_yaml(c, mt, f) ==
    IF f.exists /\ (mt = None \/ mt # << f.st_mtime >>)
    THEN [cache |-> [cached |-> TRUE, data |-> Load(f.lines)],
          file_mod_times |-> << f.st_mtime >>]
    ELSE [cache |-> c, file_mod_times |-> mt]

\* setdefault meets a value that is not a dict on the way to the container
RECURSIVE Blocked(_, _)
Blocked(d, ks) ==
    /\ Len(ks) > 1
    /\ ks[1] \in Keys(d)
    /\ \/ DictGet(d, ks[1]).kind # "dict"
       \/ Blocked(DictGet(d, ks[1]).items, Tail(ks))

\* the mapping after reduce(setdefault, keys[:-1], data)
RECURSIVE WithContainers(_, _)
WithContainers(d, ks) ==
    IF Len(ks) <= 1 THEN d
    ELSE LET sub == IF ks[1] \in Keys(d) THEN DictGet(d, ks[1]).items
                    ELSE << >>
         IN DictSet(d, ks[1], DictVal(WithContainers(sub, Tail(ks))))

\* setting_container.get(keys[-1])
RECURSIVE GetAt(_, _)
GetAt(d, ks) ==
    IF ks[1] \notin Keys(d) THEN NoneVal
    ELSE IF Len(ks) = 1 THEN DictGet(d, ks[1])
    ELSE GetAt(DictGet(d, ks[1]).items, Tail(ks))

\* setting_container[keys[-1]] = new_value
RECURSIVE SetAt(_, _, _)
SetAt(d, ks, v) ==
    IF Len(ks) = 1 THEN DictSet(d, ks[1], v)
    ELSE LET sub == IF ks[1] \in Keys(d) THEN DictGet(d, ks[1]).items
                    ELSE << >>
         IN DictSet(d, ks[1], DictVal(SetAt(sub, Tail(ks), v)))

\* get_setting: what it returns or that it raises, and the cache, the
\* recorded modification time and the file afterwards; tick is the time
\* the clock of the file system moved on since the file was last written
get_setting(c, mt, f, key_path, new_value, tick) ==
    LET loaded == load_yaml(c, mt, f)
        data == loaded.cache.data
        ks == split(key_path, ".")
        updated == SetAt(data, ks, new_value)
    IN IF Blocked(data, ks)
       THEN [raised |-> TRUE, value |-> NoneVal, cache |-> loaded.cache,
             file_mod_times |-> loaded.file_mod_times, yaml_file |-> f]
       ELSE IF new_value # NoneVal
       THEN [raised |-> FALSE, value |-> new_value,
             cache |-> [cached |-> TRUE, data |-> updated],
             file_mod_times |-> loaded.file_mod_times,
             yaml_file |-> [exists |-> TRUE, st_mtime |-> f.st_mtime + tick,
                            lines |-> Dump(updated, 0)]]
       ELSE [raised |-> FALSE, value |-> GetAt(data, ks),
             cache |-> IF loaded.cache.cached
                       THEN [cached |-> TRUE, data |-> WithContainers(data, ks)]
                       ELSE loaded.cache,
             file_mod_times |-> loaded.file_mod_times, yaml_file |-> f]

KeyPaths == { << "S" >>, << "S", ".", "K", ".", "X" >> }

\* a str, an int, a bool, a dict and a list
NewValues ==
    { StrVal(<< "5" >>), IntVal(<< "5" >>), BoolVal(<< "True" >>),
      DictVal(<< << << "Z" >>, StrVal(<< "Nexus" >>) >> >>),
      ListVal(<< << << "-" >>, IntVal(<< "5" >>) >> >>) }

\* the store before the run: no file, or a file with settings
StoredSettings ==
    << << << "S" >>,
          DictVal(<< << << "K" >>,
                        DictVal(<< << << "X" >>, BoolVal(<< "False" >>) >> >>)
                     >> >>) >> >>

YamlFiles ==
    { [exists |-> FALSE, st_mtime |-> 0, lines |-> << >>],
      [exists |-> TRUE, st_mtime |-> 1, lines |-> Dump(StoredSettings, 0)] }

\* p is q or leads to q: the keys of p begin the keys of q
LeadsTo(p, q) ==
    LET kp == split(p, ".")
        kq == split(q, ".")
    IN Len(kp) <= Len(kq) /\ SubSeq(kq, 1, Len(kp)) = kp

\* the record of the values written, after a write of v to key path p
StandingAfter(st, p, v) ==
    Append(SelectSeq(st, LAMBDA e : ~LeadsTo(e[1], p) /\ ~LeadsTo(p, e[1])),
           << p, v >>)

YmlInit ==
    /\ SegIdle
    /\ SusIdle
    /\ PlgIdle
    /\ RfmIdle
    /\ ModIdle
    /\ ScanIdle
    /\ WrtIdle
    /\ DbIdle
    /\ cache = [cached |-> FALSE, data |-> << >>]
    /\ file_mod_times = None
    /\ yaml_file \in YamlFiles
    /\ ops = 0
    /\ setting = [key_path |-> << >>, new_value |-> NoneVal]
    /\ returned = [raised |-> FALSE, value |-> NoneVal]
    /\ standing = << >>

ymlRest == << segVars, susVars, plgVars, rfmVars, modVars, scanVars, wrtVars,
             dbVars >>

\* a call of get_setting without new_value
YmlRead ==
    /\ ops < MaxOps
    /\ \E key_path \in KeyPaths :
         LET out == get_setting(cache, file_mod_times, yaml_file, key_path,
                                NoneVal, 0)
         IN /\ cache' = out.cache
            /\ file_mod_times' = out.file_mod_times
            /\ setting' = [key_path |-> key_path, new_value |-> NoneVal]
            /\ returned' = [raised |-> out.raised, value |-> out.value]
    /\ ops' = ops + 1
    /\ UNCHANGED << yaml_file, standing, ymlRest >>

\* a call of get_setting with new_value
YmlWrite ==
    /\ ops < MaxOps
    /\ \E key_path \in KeyPaths, new_value \in NewValues, tick \in { 0, 1 } :
         LET out == get_setting(cache, file_mod_times, yaml_file, key_path,
                                new_value, tick)
         IN /\ cache' = out.cache
            /\ file_mod_times' = out.file_mod_times
            /\ yaml_file' = out.yaml_file
            /\ setting' = [key_path |-> key_path, new_value |-> new_value]
            /\ returned' = [raised |-> out.raised, value |-> out.value]
            /\ standing' = IF out.raised THEN standing
                           ELSE StandingAfter(standing, key_path, new_value)
    /\ ops' = ops + 1
    /\ UNCHANGED ymlRest

YmlNext == YmlRead \/ YmlWrite

SpecSettings == YmlInit /\ [][YmlNext]_vars

(***************************************************************************)
(* Properties of get_crash_log_plugins.                                    *)
(***************************************************************************)
\* the line of the Plugins segment that the next pass of the loop handles
NextPluginLine == plugins[plugin_index + 1]

\* the next pass handles a line that names a plugin already in the table
NamesKnownPlugin ==
    /\ ppc = "plugins"
    /\ plugin_index < Len(plugins)
    /\ PluginMatch(NextPluginLine) # None
    /\ PluginMatch(NextPluginLine)[1].name \in Keys(crashlog_plugins)

\* C10: a line carrying a plugin name that an earlier line put in the table
\* neither adds an entry nor changes the tag stored for that name.
C10_FirstLineWins ==
    [][NamesKnownPlugin => crashlog_plugins' = crashlog_plugins]_vars

\* the table the override file stands for: its lines after the header, in
\* order, each tagged "LO" (the name with or without its line terminator)
OverrideTables ==
    { d \in [1..(Len(loadorder_data) - 1) ->
                { << loadorder_data[i], TagLO >> : i \in 2..Len(loadorder_data) }
                \cup { << RStrip(loadorder_data[i]), TagLO >> :
                          i \in 2..Len(loadorder_data) }] :
        \A i \in 1..(Len(loadorder_data) - 1) :
            d[i][1] \in { loadorder_data[i + 1], RStrip(loadorder_data[i + 1]) } }

\* C11: with loadorder.txt present the returned table is exactly the
\* override's names tagged "LO", whether or not the Plugins segment names
\* the game's master file, and whatever the three segments hold.
C11_OverrideTable ==
    (ppc = "done" /\ loadorder_exists) => crashlog_plugins \in OverrideTables

\* C12: the returned table has no entry whose name equals, ignoring case, a
\* name of the ignore set.
C12_IgnoredAbsent ==
    ppc = "done" =>
        \A k \in Keys(crashlog_plugins) : \A s \in ignore_plugins_list :
            Lower(k) # Lower(s)

\* the table is built from the log: master file named, no override
BuiltFromLog ==
    /\ ~loadorder_exists
    /\ \E i \in 1..Len(plugins) : Contains(plugins[i], esm_name)

\* C13: when the table is built from the log, every XSE module name
\* (lower-cased, version suffix stripped) outside the ignore set is a key of
\* the returned table, tagged "DLL" unless a line of the Plugins segment put
\* that same name in the table.
C13_XseModulesKeyed ==
    (ppc = "done" /\ BuiltFromLog) =>
        \A e \in xsemodules_lower(xsemodules) \ ignore_plugins_list :
            /\ e \in Keys(crashlog_plugins)
            /\ (\A i \in 1..Len(plugins) :
                    PluginMatch(plugins[i]) = None
                    \/ PluginMatch(plugins[i])[1].name # e)
                => DictGet(crashlog_plugins, e) = TagDLL

\* the keys of a table with their tags
Items(d) == { d[i] : i \in 1..Len(d) }

\* C29: the table get_crash_log_plugins returns depends on its inputs alone:
\* for the same segments and ignore set, the keys and their tags are the same
\* in whatever order the set of XSE module names is iterated.
C29_OrderIndependent ==
    ppc = "done" =>
        \A t \in get_crash_log_plugins(plugins, xsemodules, allmodules,
                                       ignore_plugins_list, loadorder_exists) :
            Items(t) = Items(crashlog_plugins)

(***************************************************************************)
(* Properties of crashlogs_reformat.                                       *)
(***************************************************************************)
\* the lines after the last "PLUGINS:" line of a file, trimmed as the
\* segments are
PluginsRegion(data) ==
    LET at == { i \in 1..Len(data) : StartsWith(data[i], PluginsMarker) }
        last == CHOOSE i \in at : \A j \in at : j <= i
    IN  IF at = {} THEN << >>
        ELSE [j \in 1..(Len(data) - last) |-> Strip(data[last + j])]

\* the loop over the lines of the file is over
Reformatted == rpc = "loop" /\ index > last_index

\* the file read has, after its "PLUGINS:" line, a line naming the master
\* file and the line "    [FE:  1] SomeMod.esp" once
HasLightLine ==
    /\ \E i \in 1..Len(PluginsRegion(log_file)) :
          Contains(PluginsRegion(log_file)[i], esm_name)
    /\ Cardinality({ i \in 1..Len(PluginsRegion(log_file)) :
                       PluginsRegion(log_file)[i] = Strip(RawLightLine) }) = 1

\* the tables get_crash_log_plugins builds from the rewritten lines
ReformattedTables ==
    get_crash_log_plugins(PluginsRegion(crash_data), << >>, << >>, {}, FALSE)

Written(title) ==
    \E i \in 1..Len(autoscan_report) : autoscan_report[i] = << title >>

\* the fragments of the report after the heading with this title, up to the
\* next heading
SectionOf(title) ==
    LET at == CHOOSE i \in 1..Len(autoscan_report) :
                  autoscan_report[i] = << title >>
        later == { j \in (at + 2)..Len(autoscan_report) :
                     autoscan_report[j] = RuleLine }
        stop == IF later = {} THEN Len(autoscan_report) + 1
                ELSE CHOOSE j \in later : \A k \in later : j <= k
    IN  SubSeq(autoscan_report, at + 2, stop - 1)

\* how many fragments of the report are this text
Emitted(text) ==
    Cardinality({ i \in 1..Len(autoscan_report) : autoscan_report[i] = text })

\* no line of the Plugins segment contains the name of the master file
NoMasterFile == ~\E i \in 1..Len(plugins) : Contains(plugins[i], esm_name)

SectionTitles ==
    { FrequentTitle, ConflictsTitle, SolutionsTitle, PatchesTitle,
      ImportantTitle }

\* C14: with no line of the Plugins segment naming the master file the
\* table is empty, the log is flagged as without plugins and counted as
\* incomplete, and every mod section consists of the no-plugins warning.
C14_NoPlugins ==
    NoMasterFile =>
        /\ mpc # "raised"
        /\ mpc # "plugins" => (crashlog_plugins = << >> /\ ~trigger_plugins_loaded)
        /\ \A title \in SectionTitles :
              Written(title) => SectionOf(title) = << warn_noplugins >>
        /\ mpc \in {"stats", "done"} => \A title \in SectionTitles : Written(title)
        /\ mpc = "done" => incomplete = 1

\* a log whose Plugins segment has lines but none naming the master file
\* has been processed
C14_Witness ==
    /\ NoMasterFile
    /\ Len(plugins) = 2
    /\ mpc = "done"
    /\ Emitted(warn_noplugins) = 5

\* some plugin name of the table contains the fragment, ignoring case
FragmentInTable(frag, table) ==
    \E i \in 1..Len(table) : Contains(Lower(table[i][1]), frag)

\* the orders the entries of a table can stand in
TableOrders(table) ==
    { [i \in 1..Len(table) |-> table[f[i]]] :
        f \in { g \in [1..Len(table) -> 1..Len(table)] :
                  \A i, j \in 1..Len(table) : i # j => g[i] # g[j] } }

\* C16: detect_mods_double reports the rule keyed "a | b" if and only if
\* some plugin name contains a and some plugin name contains b (the same
\* plugin or another), whatever the order of the plugins in the table.
C16_BothFragments ==
    (Written(ConflictsTitle) /\ crashlog_plugins # << >>) =>
        /\ \A i \in 1..Len(game_mods_conf) :
              LET mod_split == SplitOnce(Lower(game_mods_conf[i][1]), " | ")
              IN  (/\ FragmentInTable(mod_split[1], crashlog_plugins)
                   /\ FragmentInTable(mod_split[2], crashlog_plugins))
                  <=> \E j \in 1..Len(SectionOf(ConflictsTitle)) :
                          SectionOf(ConflictsTitle)[j] = game_mods_conf[i][2]
        /\ \A table \in TableOrders(crashlog_plugins) :
              detect_mods_double(game_mods_conf, table, << >>)
                  = detect_mods_double(game_mods_conf, crashlog_plugins, << >>)

\* the table was built from the lines "[07] MyWeaponMod.esp" and
\* "[08] OtherWeapon.esl", and process_mod_conflicts has run on it
WeaponTable ==
    /\ Written(ConflictsTitle)
    /\ \E i \in 1..Len(crashlog_plugins) :
          crashlog_plugins[i] = << << "My", "Weapon", "Mod", ".esp" >>, << "0", "7" >> >>
    /\ \E i \in 1..Len(crashlog_plugins) :
          crashlog_plugins[i] = << << "Other", "Weapon", ".esl" >>, << "0", "8" >> >>

\* C17 as stated: with the plugins MyWeaponMod.esp and OtherWeapon.esl and
\* the rule "myweaponmod.esp | otherweapon.esp" the warning is emitted
\* exactly once.
C17_WarningOnce ==
    (WeaponTable /\ game_mods_conf = << WeaponRuleEsp >>) =>
        Emitted(WeaponWarning) = 1

\* C17: with the plugins MyWeaponMod.esp and OtherWeapon.esl the rule
\* "myweaponmod.esp | otherweapon.esl" emits its warning exactly once, and
\* the rule "myweaponmod.esp | otherweapon.esp" emits nothing.
C17_WarningByExtension ==
    WeaponTable =>
        /\ game_mods_conf = << WeaponRuleEsl >> =>
              /\ Emitted(WeaponWarning) = 1
              /\ SubSeq(SectionOf(ConflictsTitle), 1, 2)
                     = << << "[!] CAUTION : " >>, WeaponWarning >>
        /\ game_mods_conf = << WeaponRuleEsp >> => Emitted(WeaponWarning) = 0

\* both rules have been applied to the two weapon plugins
C17_Witness ==
    /\ WeaponTable
    /\ mpc = "done"
    /\ game_mods_conf = << WeaponRuleEsl >>
    /\ Emitted(WeaponWarning) = 1

\* the places of the plugins whose lower-cased name contains the
\* lower-cased key of rule i of game_mods_freq
Hits(i) ==
    { j \in 1..Len(crashlog_plugins) :
        Contains(Lower(crashlog_plugins[j][1]), Lower(game_mods_freq[i][1])) }

\* the rules of game_mods_freq that match a plugin and have no warning
Unwarned == { i \in 1..Len(game_mods_freq) :
                Hits(i) # {} /\ game_mods_freq[i][2] = << >> }

\* the first of them, or the place after the last rule
FirstUnwarned ==
    IF Unwarned = {} THEN Len(game_mods_freq) + 1
    ELSE CHOOSE i \in Unwarned : \A k \in Unwarned : i <= k

\* one warning for each matching rule from rule i on, in the order of the
\* rules, each after the index of the first plugin that matches
RECURSIVE OneWarningEach(_)
OneWarningEach(i) ==
    IF i >= FirstUnwarned THEN << >>
    ELSE (IF Hits(i) = {} THEN << >>
          ELSE LET first == CHOOSE j \in Hits(i) : \A k \in Hits(i) : j <= k
               IN  << << "[!] FOUND : [" >> \o crashlog_plugins[first][2]
                         \o << "] " >>,
                      game_mods_freq[i][2] >>)
         \o OneWarningEach(i + 1)

\* C18: detect_mods_single emits for each rule whose key is in a plugin
\* name exactly one warning, for the first plugin that matches, raises
\* ValueError if that rule has no warning, emits nothing for a rule that
\* matches no plugin, and goes on with the next rule.
C18_OneWarningPerRule ==
    (Written(FrequentTitle) /\ crashlog_plugins # << >>) =>
        /\ Unwarned # {} <=> mpc = "raised"
        /\ SectionOf(FrequentTitle)
              = OneWarningEach(1)
                  \o (IF Unwarned # {} THEN << >>
                      ELSE IF \E i \in 1..Len(game_mods_freq) : Hits(i) # {}
                      THEN FrequentFound ELSE FrequentNone)

\* a rule that two plugins match has emitted its warning once, and the rule
\* after it has been looked at
C18_Witness ==
    /\ mpc = "conflicts"
    /\ Len(game_mods_freq) = 2
    /\ Cardinality(Hits(1)) = 2
    /\ Hits(2) = {}
    /\ Emitted(game_mods_freq[1][2]) = 1

\* the rule table process_important_mods hands to detect_mods_important
ImportantRules ==
    IF FragmentInTable(<< "london", "worldspace" >>, crashlog_plugins)
    THEN game_mods_core_folon ELSE game_mods_core

\* the fragment of an important-mod rule is in a plugin name of the table
Installed(rule) ==
    FragmentInTable(Lower(SplitOnce(rule[1], " | ")[1]), crashlog_plugins)

\* the warning of the rule names the vendor
Names(rule, vendor) == Contains(Lower(rule[2]), vendor)

\* the four outcomes of a rule for the rival vendor; emptyToo says whether
\* a mod that is not installed is reported when its rule has no warning
Outcome(rule, rival, emptyToo) ==
    LET name == SplitOnce(rule[1], " | ")[2]
    IN  IF Installed(rule) /\ Names(rule, rival)
        THEN << << "[?] " >> \o name
                   \o << " is installed, BUT IT SEEMS YOU DON'T HAVE AN " >>
                   \o Upper(rival) \o << " GPU?\n" >>,
                << "IF THIS IS CORRECT, COMPLETELY UNINSTALL THIS MOD TO AVOID ANY PROBLEMS! \n\n" >> >>
        ELSE IF Installed(rule)
        THEN << << "[v] " >> \o name \o << " is installed!\n\n" >> >>
        ELSE IF ~Names(rule, rival) /\ (emptyToo \/ rule[2] # << >>)
        THEN << << "[x] " >> \o name \o << " is not installed!\n" >>,
                rule[2], << "\n" >> >>
        ELSE << >>

RECURSIVE Outcomes(_, _, _, _)
Outcomes(rules, i, rival, emptyToo) ==
    IF i > Len(rules) THEN << >>
    ELSE Outcome(rules[i], rival, emptyToo)
             \o Outcomes(rules, i + 1, rival, emptyToo)

\* detect_mods_important has run on a table with a detected AMD or Nvidia GPU
VendorDetected ==
    /\ Written(ImportantTitle)
    /\ crashlog_plugins # << >>
    /\ GpuRival(gpu_info) # None

C20_UnknownAsAmd ==
    (/\ Written(ImportantTitle)
     /\ crashlog_plugins # << >>
     /\ ~get_gpu_info(system)[1]
     /\ ~get_gpu_info(system)[2]) =>
        /\ SectionOf(ImportantTitle)
              = detect_mods_important(ImportantRules, 1, crashlog_plugins,
                                      << >>, GpuRival(<< TRUE, FALSE, FALSE >>))
        /\ \A i \in 1..Len(ImportantRules) :
              (/\ ~Installed(ImportantRules[i])
               /\ ImportantRules[i][2] # << >>
               /\ ~Names(ImportantRules[i], << "nvidia" >>))
              => \E j \in 1..Len(SectionOf(ImportantTitle)) :
                     SectionOf(ImportantTitle)[j]
                         = << "[x] " >> \o SplitOnce(ImportantRules[i][1], " | ")[2]
                              \o << " is not installed!\n" >>

(***************************************************************************)
(* Properties of process_crash_suspects.                                   *)
(***************************************************************************)
\* the kinds of signal of the grammar, read off the signal's text
IsBare(sig) == ~HasSym(sig, "|")

Modifier(sig) == SplitOnce(sig, "|")[1]

SignalText(sig) == SplitOnce(sig, "|")[2]

IsReq(sig) == ~IsBare(sig) /\ Modifier(sig) = << "ME-REQ" >>

IsOpt(sig) == ~IsBare(sig) /\ Modifier(sig) = << "ME-OPT" >>

IsNot(sig) == ~IsBare(sig) /\ Modifier(sig) = << "NOT" >>

IsCount(sig) == ~IsBare(sig) /\ IsDecimal(Modifier(sig))

\* the stack rule at place i of the table (1-based), and its signals
SignalsOf(i) == suspects_stack_list[i][2]

\* rule i has been evaluated / has a SUSPECT FOUND line in the report
Evaluated(i) == i \in 1..rule_index

Reported(i) ==
    \E j \in 1..Len(autoscan_report) :
        autoscan_report[j] = SuspectLine(suspects_stack_list[i][1])

\* some NOT signal of the list has its text in the joined call stack
VetoTriggered(sl) ==
    \E j \in 1..Len(sl) :
        IsNot(sl[j]) /\ Contains(callstack_intact, SignalText(sl[j]))

HasRequired(sl) == \E j \in 1..Len(sl) : IsReq(sl[j])

\* s holds n occurrences of t no two of which overlap
HasDisjointOccurrences(s, t, n) ==
    \E P \in SUBSET { i \in 0..(Len(s) - Len(t)) : PySlice(s, i, i + Len(t)) = t } :
        /\ Cardinality(P) = n
        /\ \A p \in P : \A q \in P : p < q => q - p >= Len(t)

\* the signal holds, by the grammar
SignalHolds(sig) ==
    \/ IsBare(sig) /\ Contains(callstack_intact, sig)
    \/ IsOpt(sig) /\ Contains(mainerror, SignalText(sig))
    \/ IsCount(sig)
       /\ HasDisjointOccurrences(callstack_intact, SignalText(sig),
                                 ToInt(Modifier(sig)))

\* the rearrangements of a list
Rearrangements(sl) ==
    { [i \in 1..Len(sl) |-> sl[f[i]]] :
        f \in { g \in [1..Len(sl) -> 1..Len(sl)] :
                  \A a \in 1..Len(sl) : \E b \in 1..Len(sl) : g[b] = a } }

\* C1: a stack rule with a NOT signal whose text is in the joined call
\* stack is never reported, wherever the NOT signal stands in the list.
C1_NotVeto ==
    \A i \in 1..Len(suspects_stack_list) :
        (Evaluated(i) /\ VetoTriggered(SignalsOf(i))) => ~Reported(i)

\* C2: a stack rule with at least one ME-REQ signal (and no triggered
\* veto) is reported iff the text of every one of its ME-REQ signals is in
\* mainError, whatever its bare, count and ME-OPT signals give.
C2_RequiredGate ==
    \A i \in 1..Len(suspects_stack_list) :
        (Evaluated(i) /\ HasRequired(SignalsOf(i))
                      /\ ~VetoTriggered(SignalsOf(i)))
            => (Reported(i) <=>
                  \A j \in 1..Len(SignalsOf(i)) :
                      IsReq(SignalsOf(i)[j])
                          => Contains(mainerror, SignalText(SignalsOf(i)[j])))

\* C3: a stack rule with no ME-REQ signal and no triggered veto is reported
\* iff one of its signals holds (ME-OPT text in mainError, bare text in the
\* call stack, N|text with N disjoint occurrences in the call stack), and
\* every rearrangement of its signals gives the same outcome.
C3_Disjunction ==
    \A i \in 1..Len(suspects_stack_list) :
        (Evaluated(i) /\ ~HasRequired(SignalsOf(i))
                      /\ ~VetoTriggered(SignalsOf(i)))
            => LET reported == Reported(i)
               IN  /\ reported <=>
                        \E j \in 1..Len(SignalsOf(i)) :
                            SignalHolds(SignalsOf(i)[j])
                   /\ \A sl \in Rearrangements(SignalsOf(i)) :
                          RuleMatches(sl, mainerror, callstack_intact) = reported

\* a reported rule made of a count signal and a NOT signal that is not
\* triggered, the call stack holding the counted text exactly twice
C3_Witness ==
    /\ Evaluated(1)
    /\ Reported(1)
    /\ SignalsOf(1) = << << "NOT", "|", SafeModule >>,
                         << "2", "|", RaiseException >> >>
    /\ callstack_intact = << RaiseException, RaiseException >>

\* the keys of the rules in the order the tables are gone through: the
\* error rules, then the stack rules
RuleKeys ==
    [i \in 1..(Len(suspects_error_list) + Len(suspects_stack_list)) |->
        IF i <= Len(suspects_error_list) THEN suspects_error_list[i][1]
        ELSE suspects_stack_list[i - Len(suspects_error_list)][1]]

\* the places of the report that hold the SUSPECT FOUND line of rule k
LinesOf(k) ==
    { j \in 1..Len(autoscan_report) : autoscan_report[j] = SuspectLine(RuleKeys[k]) }

\* how many signals of a list have their text in the main error or in the
\* call stack
MatchingSignals(sl) ==
    Cardinality({ j \in 1..Len(sl) :
        IF IsBare(sl[j]) THEN Contains(callstack_intact, sl[j])
        ELSE IF IsCount(sl[j])
        THEN Count(callstack_intact, SignalText(sl[j])) >= ToInt(Modifier(sl[j]))
        ELSE (IsReq(sl[j]) \/ IsOpt(sl[j]))
             /\ Contains(mainerror, SignalText(sl[j])) })

\* C21: the report holds at most one SUSPECT FOUND line per rule, and the
\* lines stand in the order of the tables: error rules, then stack rules.
C21_OneLineInOrder ==
    LET \* the SUSPECT FOUND lines of the report, in its order
        found == SelectSeq(autoscan_report,
                           LAMBDA l : l # << >> /\ l[1] = "# Checking for ")
        keys == RuleKeys
        \* the rules whose line stands at place j of found
        at == [j \in 1..Len(found) |->
                 { k \in 1..Len(keys) : found[j] = SuspectLine(keys[k]) }]
    IN found # << >> =>
         /\ \A j \in 1..Len(at) : Cardinality(at[j]) <= 1
         /\ \A p \in 1..Len(at) : \A q \in (p + 1)..Len(at) :
               \A a \in at[p] : \A b \in at[q] : a < b

\* both error rules and both stack rules are reported, the first stack rule
\* with more than one matching signal
C21_Witness ==
    /\ spc = "done"
    /\ \A a \in 1..Len(RuleKeys) : Cardinality(LinesOf(a)) = 1
    /\ MatchingSignals(SignalsOf(1)) >= 2

(***************************************************************************)
(* Properties of find_segments.                                            *)
(***************************************************************************)
\* the (1-based) positions of the lines of data that start with marker k
MarkerLines(data, k) ==
    { i \in 1..Len(data) : StartsWith(data[i], StartMarker(k)) }

MarkerPos(data, k) == CHOOSE i \in MarkerLines(data, k) : TRUE

\* each of the six markers starts exactly one line, in the order of the regions
AllMarkersInOrder(data) ==
    /\ \A k \in 1..NSegments : Cardinality(MarkerLines(data, k)) = 1
    /\ \A k \in 1..(NSegments - 1) : MarkerPos(data, k) < MarkerPos(data, k + 1)

StripLines(ls) == [j \in 1..Len(ls) |-> Strip(ls[j])]

\* the trimmed lines strictly between the markers of region k and region k+1,
\* and for the last region every line after its marker
RegionLines(data, k) ==
    StripLines(IF k < NSegments
               THEN PySlice(data, MarkerPos(data, k), MarkerPos(data, k + 1) - 1)
               ELSE PySliceFrom(data, MarkerPos(data, k)))

RECURSIVE SumLen(_)
SumLen(segs) == IF segs = << >> THEN 0 ELSE Len(Head(segs)) + SumLen(Tail(segs))

\* data with line l put in after its first i lines
InsertAt(data, i, l) == PySlice(data, 0, i) \o << l >> \o PySliceFrom(data, i)

\* some line starting with the analyzer's name stands before position i
CrashgenBefore(data, i) ==
    \E j \in 1..(i - 1) : StartsWith(data[j], crashgen_name)

\* the first line of data starting with prefix p, as <<line>>, or None
FirstWith(data, p) ==
    LET S == { i \in 1..Len(data) : StartsWith(data[i], p) }
    IN  IF S = {} THEN None
        ELSE Some(data[CHOOSE i \in S : \A j \in S : i <= j])

Done == pc = "done"

\* C4: with all six markers in order, each of the first five segments is
\* exactly the trimmed lines strictly between its two markers, and the
\* Plugins segment is every line after the PLUGINS: line.
C4_ExactRegions ==
    (Done /\ AllMarkersInOrder(crash_data))
        => \A k \in 1..NSegments :
               result.segments[k] = RegionLines(crash_data, k)

\* C5: without a MODULES: line (the other markers in order) AllModules is
\* empty and the first three segments are what they are for the same log
\* with a MODULES: line put in somewhere between the call stack marker and
\* the XSE plugins marker.
C5_Pre ==
    /\ MarkerLines(crash_data, 4) = {}
    /\ \A k \in (1..NSegments) \ {4} :
           Cardinality(MarkerLines(crash_data, k)) = 1
    /\ MarkerPos(crash_data, 1) < MarkerPos(crash_data, 2)
    /\ MarkerPos(crash_data, 2) < MarkerPos(crash_data, 3)
    /\ MarkerPos(crash_data, 3) < MarkerPos(crash_data, 5)
    /\ MarkerPos(crash_data, 5) < MarkerPos(crash_data, 6)

C5_MissingModules ==
    (Done /\ C5_Pre)
        => /\ result.segments[4] = << >>
           /\ \E i \in MarkerPos(crash_data, 3)..(MarkerPos(crash_data, 5) - 1) :
                 LET with == find_segments(
                                 InsertAt(crash_data, i, StartMarker(4)))
                 IN  \A k \in 1..3 : result.segments[k] = with.segments[k]

\* C6: find_segments never raises, and what it returns has six segments,
\* those of regions whose start marker starts no line being empty, and
\* header fields that are a captured line or "UNKNOWN".
C6_SixSegments ==
    /\ pc # "raised"
    /\ Done =>
          /\ Len(result.segments) = NSegments
          /\ \A k \in 1..NSegments :
                 MarkerLines(crash_data, k) = {} => result.segments[k] = << >>
          /\ \/ result.gameversion = UNKNOWN
             \/ \E i \in 1..Len(crash_data) :
                    /\ StartsWith(crash_data[i], game_root_name)
                    /\ result.gameversion = Strip(crash_data[i])
          /\ \/ result.crashgen = UNKNOWN
             \/ \E i \in 1..Len(crash_data) :
                    /\ StartsWith(crash_data[i], crashgen_name)
                    /\ result.crashgen = Strip(crash_data[i])
          /\ \/ result.mainerror = UNKNOWN
             \/ \E i \in 1..Len(crash_data) :
                    /\ StartsWith(crash_data[i], UnhandledException)
                    /\ result.mainerror = ReplaceFirstBar(crash_data[i])

\* a returned call on a log that lacks some marker and has another, whose
\* region came out non-empty, and a captured header field
C6_Witness ==
    /\ Done
    /\ \E k \in 1..NSegments : MarkerLines(crash_data, k) = {}
    /\ \E k \in 1..NSegments : result.segments[k] # << >>
    /\ result.gameversion = UNKNOWN
    /\ result.crashgen # UNKNOWN

\* C7: a region whose start marker occurs in the log is collected, whether
\* or not a line starting with the analyzer name was seen (stated for the
\* first region, whose start marker is pending from the start).
C7_ScanIndependent ==
    (Done /\ MarkerLines(crash_data, 1) # {}) => Len(segments) >= 1

\* C8: mainError is the first line starting with "Unhandled exception"
\* (first '|' replaced by a newline), and the other two header fields are
\* the first line matching their prefix, trimmed.
C8_FirstMatchWins ==
    Done =>
        /\ result.mainerror =
             (IF FirstWith(crash_data, UnhandledException) = None THEN UNKNOWN
              ELSE ReplaceFirstBar(FirstWith(crash_data, UnhandledException)[1]))
        /\ result.gameversion =
             (IF FirstWith(crash_data, game_root_name) = None THEN UNKNOWN
              ELSE Strip(FirstWith(crash_data, game_root_name)[1]))
        /\ result.crashgen =
             (IF FirstWith(crash_data, crashgen_name) = None THEN UNKNOWN
              ELSE Strip(FirstWith(crash_data, crashgen_name)[1]))

NonEmptyClosed(data) ==
    { k \in 1..(NSegments - 1) :
        MarkerPos(data, k + 1) - MarkerPos(data, k) > 1 }

CurrentLog == crashlog_list[log_no + 1]

\* the log has fewer lines than process_crash_log asks for
Truncated(data) == Len(data) < min_log_lines

\* all six segments of the log come out empty
NoSegments(data) ==
    \A k \in 1..NSegments : parse_crash_log_segments(data)[k] = << >>

\* C22: a failure while one log is processed never interrupts the batch:
\* the loop is never left by an exception, so that every log is gone
\* through and, once the summary is printed, every log has its report
\* written and the summary names the failed logs.
C22_BatchCompletes ==
    /\ bpc # "raised"
    /\ bpc = "done" =>
          /\ written = [i \in 1..Len(crashlog_list) |-> i]
          /\ summary = scan_failed_list

\* C23: a log with fewer than 20 lines, and a log whose six segments are
\* all empty, comes back from process_crash_log with the failure flag set,
\* is counted as failed and is named in the failed list.
C23_MalformedFails ==
    /\ bpc = "stats" =>
          ((Truncated(CurrentLog) \/ NoSegments(CurrentLog))
              => trigger_scan_failed)
    /\ bpc = "write" =>
          ((Truncated(CurrentLog) \/ NoSegments(CurrentLog))
              => /\ failed >= 1
                 /\ \E i \in 1..Len(scan_failed_list) :
                        scan_failed_list[i] = log_no + 1)

\* C24: scanning leaves the shared rule set as it was loaded, the
\* crashgen_ignore set included.
C24_RuleSetUnchanged ==
    bpc \in {"loop", "stats", "write", "done", "raised"} =>
        /\ crashgen_ignore = crashgen_ignore_loaded
        /\ game_mods_core = CoreRules
        /\ game_mods_conf = << >>

\* C30: after each log the counters satisfy scanned + failed = logs
\* processed, failed = length of the failed list, and
\* failed <= incomplete <= logs processed.
C30_Counters ==
    bpc \in {"loop", "done"} =>
        /\ scanned + failed = log_no
        /\ failed = Len(scan_failed_list)
        /\ failed <= incomplete
        /\ incomplete <= log_no

\* a batch with a failed log, an incomplete log that did not fail and a
\* scanned one is through
C30_Witness ==
    /\ bpc = "done"
    /\ log_no = MaxFiles
    /\ failed >= 1
    /\ incomplete > failed

(***************************************************************************)
(* Termination of find_segments.                                           *)
(***************************************************************************)
\* an iteration that leaves the cursor on its line
SameLine == iterations' = iterations + 1 /\ current_index' = current_index

\* C28: find_segments terminates on every finite list of lines: the cursor
\* stays on a line only when that line is matched as an end marker, the
\* next look at the line moves on or leaves the loop, so no line is examined
\* more than twice and the loop runs at most twice as many iterations as
\* there are lines.
C28_TwicePerLine ==
    /\ [][/\ iterations' # iterations =>
               /\ iterations' = iterations + 1
               /\ current_index' >= current_index
               /\ current_index' <= Len(crash_data)
          /\ SameLine /\ pc' = "loop" => collect /\ ~collect']_vars
    /\ [](iterations <= 2 * Len(crash_data))

\* a call has returned after more iterations than the log has lines: a line
\* was an end marker and was looked at again
C28_Witness ==
    /\ pc = "done"
    /\ iterations > Len(crash_data)
    /\ Len(result.segments) = NSegments

(***************************************************************************)
(* Properties of get_entry.                                                *)
(***************************************************************************)
\* what the databases hold for a key: the first entry in the order of DB_PATHS
Held(formid, plugin) == Fetched(<< db_main, db_local >>, formid, plugin)

\* every item of cache a is an item of cache b, with the same value
Kept(a, b) ==
    \A k \in Keys(a) : k \in Keys(b) /\ DictGet(b, k) = DictGet(a, k)

NoDuplicates(s) == \A i, j \in 1..Len(s) : s[i] = s[j] => i = j

\* a call of get_entry with key k: what it returns and does to the cache
CallOutcome(k) ==
    IF k \in Keys(query_cache)
    THEN /\ entry_result' = DictGet(query_cache, k)
         /\ query_cache' = query_cache
    ELSE IF Held(k[1], k[2]) = << >>
    THEN /\ entry_result' = None
         /\ query_cache' = query_cache
    ELSE /\ entry_result' = Held(k[1], k[2])[1][1]
         /\ query_cache' = Append(query_cache, << k, entry_result' >>)

\* C26: a call of get_entry with a key no database holds returns None and
\* leaves query_cache as it was; the first call that finds the key returns
\* the entry and adds exactly one item under (formid, plugin) with the value
\* returned; every later call with the key returns that value and leaves
\* the cache as it was; so a key is written at most once and no cached value
\* is ever altered or removed.
C26_CachedOnce ==
    /\ [][/\ calls' # calls => CallOutcome(entry_key')
          /\ Kept(query_cache, query_cache')]_vars
    /\ [](NoDuplicates(cache_writes) /\ Len(cache_writes) = Len(query_cache))

\* a key found and cached by an earlier call is asked for again after the
\* Main database got another entry for it: the call returns the cached one
C26_Witness ==
    /\ calls >= 2
    /\ entry_hit
    /\ cache_writes = << entry_key >>
    /\ Held(entry_key[1], entry_key[2]) # << >>
    /\ Held(entry_key[1], entry_key[2])[1][1] # entry_result
    /\ entry_result = DictGet(query_cache, entry_key)

(***************************************************************************)
(* Properties of YamlSettingsCache.get_setting.                            *)
(***************************************************************************)
\* C27: a write get_setting(store, key, v) with v not None returns v, and a
\* later read of the key, with no write to it in between, returns exactly v
\* (a str, an int, a bool, a dict or a list), whether it is served from the
\* cache or reloaded because the modification time of the file changed.
\* A write to a key path that leads to the key, or that the key leads to,
\* counts as a write to it, and a write that raises writes nothing.
C27_WriteThenRead ==
    ops > 0 =>
      /\ setting.new_value # NoneVal /\ ~returned.raised
           => returned.value = setting.new_value
      /\ setting.new_value = NoneVal /\ setting.key_path \in Keys(standing)
           => /\ ~returned.raised
              /\ returned.value = DictGet(standing, setting.key_path)

(***************************************************************************)
(* Properties of write_autoscan_report.                                    *)
(***************************************************************************)
\* the home directory as the system prints it, and with the other
\* separator before the user's name
HomeSpellings ==
    { HomePath(user_folder),
      HomePath([user_folder EXCEPT !.sep = IF @ = "/" THEN "\\" ELSE "/"]) }

NamesHome(line) == \E path \in HomeSpellings : Contains(line, path)

\* C25: the written report has the fragments of the report in their number
\* and order; a fragment that holds the home directory, in either spelling,
\* holds the placeholder in its place, every other fragment is unchanged.
C25_Redaction ==
    wpc = "done" =>
        /\ Len(sanitized_report) = Len(autoscan_report)
        /\ \A i \in 1..Len(autoscan_report) :
              IF NamesHome(autoscan_report[i])
              THEN /\ ~NamesHome(sanitized_report[i])
                   /\ Contains(sanitized_report[i], << "******" >>)
              ELSE sanitized_report[i] = autoscan_report[i]

=============================================================================
